---- MODULE Spec2Model ----
(***************************************************************************)
(* xk6-fasthttp: the deferred metrics dispatcher (metrics.MetricDispatcher),*)
(* the request engine around it (fasthttp.Client.makeReq / Client.do), the  *)
(* Trail and the error classifier (errors.ErrorCodeForError).               *)
(*                                                                         *)
(* Nine specifications share the definitions below:                         *)
(*   SpecClassify  the classifier applied to bounded error chains           *)
(*   SpecDisp      callers invoking SaveCurrentRequest and                  *)
(*                 ProcessLastSavedRequest directly on one dispatcher       *)
(*   Spec          callers making round trips through Client.makeReq        *)
(*   SpecDo        concurrent callers making Client.do's dispatcher calls   *)
(*   SpecOnce      concurrent callers of Client.makeReq up to the dispatcher *)
(*   SpecBody      the end of Client.do: response body, result, release      *)
(*   SpecCheck     checkstatus calls (ModuleInstance.CheckStatus)           *)
(*   SpecTrail     Trail.SaveSamples called repeatedly on one Trail         *)
(*   SpecPush      one caller of the dispatcher whose context may be        *)
(*                 cancelled (metrics.PushIfNotDone)                        *)
(***************************************************************************)
EXTENDS Integers, Sequences, FiniteSets, TLC

VARIABLES
    mode,            \* which harness drives the model: "classify", "disp", "client",
                     \* "check", "trail", "do", "once", "body"
    ctxDone,         \* the context of the VU (vu.Context()) is done
    GOOS,            \* runtime.GOOS of the build
    jsEngine,        \* the JavaScript engine the build is written against
    checks,          \* Group.Checks: check name -> [Passes, Fails]
    \* ---- classifier harness
    err,             \* the error handed to ErrorCodeForError
    cres,            \* its result <<code, message>>, NoResult before the call
    \* ---- MetricDispatcher
    metrics,         \* Client.metrics: 0 = nil, k = the k-th dispatcher created
    onceDone,        \* Client.metricsSetupOnce: its done flag
    onceM,           \* Client.metricsSetupOnce: holder of its mutex, 0 = unlocked
    lastRequest,     \* MetricDispatcher.lastRequest: id of the staged request, 0 = nil
    lastRequestLock, \* holder of the mutex, 0 = unlocked
    responseCallback,\* MetricDispatcher.responseCallback: "nil" or a predicate name
    nameTag,         \* the name tag of MetricDispatcher.TagsAndMeta, "" = not set
    enabledTags,     \* State.Options.SystemTags
    unf,             \* heap of UnfinishedRequest objects: id -> record
    sink,            \* State.Samples as PushIfNotDone is called on it: one batch for
                     \* each call, in order, pushed telling whether it was sent
    warned,          \* ids for which SaveCurrentRequest logged the warning
    \* ---- pooled objects
    reqObj,          \* heap of fasthttp.Request objects
    respObj,         \* heap of fasthttp.Response objects
    respFree,        \* fasthttp's response pool: handles released and not reacquired
    reqw,            \* the RequestWrapper of each caller
    \* ---- callers
    pc,              \* position of each caller
    loc,             \* locals of each caller's current call
    hist,            \* slot operations in lock order
    ncalls           \* operations started so far

vars == <<mode, ctxDone, GOOS, jsEngine, checks, err, cres, metrics, onceDone, onceM, lastRequest,
          lastRequestLock, responseCallback, nameTag, enabledTags, unf, sink, warned,
          reqObj, respObj, respFree, reqw, pc, loc, hist, ncalls>>

(***************************************************************************)
(* Bounds                                                                  *)
(***************************************************************************)
MaxDepth == 3       \* longest error chain handed to the classifier
NumCallers == 2     \* concurrent callers of one dispatcher / client
MaxOps == 3         \* dispatcher operations (SpecDisp) started in one run
MaxCalls == 2       \* Client.makeReq calls (Spec) started in one run
MaxChecks == 2      \* CheckStatus calls (SpecCheck) made in one run
MaxDos == 2         \* Client.do round trips (SpecDo) started in one run
MaxMakes == 3       \* Client.makeReq calls (SpecOnce) started in one run
MaxSaves == 4       \* operations on one Trail (SpecTrail) in one run

(***************************************************************************)
(* errors/error_codes.go: the code space                                   *)
(***************************************************************************)
defaultErrorCode == 1000
defaultNetNonTCPErrorCode == 1010
defaultDNSErrorCode == 1100
dnsNoSuchHostErrorCode == 1101
blackListedIPErrorCode == 1110
blockedHostnameErrorCode == 1111
defaultTCPErrorCode == 1200
tcpBrokenPipeErrorCode == 1201
netUnknownErrnoErrorCode == 1202
tcpDialErrorCode == 1210
tcpDialRefusedErrorCode == 1212
tcpDialUnknownErrnoCode == 1213
tcpResetByPeerErrorCode == 1220
tlsHeaderErrorCode == 1301
x509UnknownAuthorityErrorCode == 1310
x509HostnameErrorCode == 1311
unknownHTTP2GoAwayErrorCode == 1610
unknownHTTP2StreamErrorCode == 1630
unknownHTTP2ConnectionErrorCode == 1650

\* http2.ErrCodeHTTP11Required, the last enumerated HTTP/2 error code
ErrCodeHTTP11Required == 13
\* syscall error numbers the classifier compares against (their linux values; the
\* WSA numbers are the Winsock ones the windows build names)
ECONNRESET == 104
EPIPE == 32
ECONNREFUSED == 111
WSAECONNRESET == 10054
WSAECONNREFUSED == 10061
\* an error number the classifier has no case for (ETIMEDOUT)
ETIMEDOUT == 110

(***************************************************************************)
(* Error values.  A Go error is a record tagged with its dynamic type; the *)
(* nil error is Nil.                                                       *)
(***************************************************************************)
Nil == [kind |-> "nil"]

K6Error(code, msg, orig) == [kind |-> "K6Error", code |-> code, msg |-> msg, err |-> orig]
DNSError(e, name) == [kind |-> "DNSError", derr |-> e, name |-> name]
BlackListedIPError == [kind |-> "BlackListedIPError"]
BlockedHostError == [kind |-> "BlockedHostError"]
GoAwayError(c) == [kind |-> "GoAwayError", code |-> c]
StreamError(c) == [kind |-> "StreamError", code |-> c]
ConnectionError(c) == [kind |-> "ConnectionError", code |-> c]
OpError(op, net, e) == [kind |-> "OpError", op |-> op, net |-> net, err |-> e]
UnknownAuthorityError == [kind |-> "UnknownAuthorityError"]
HostnameError == [kind |-> "HostnameError"]
RecordHeaderError(msg) == [kind |-> "RecordHeaderError", msg |-> msg]
URLError(e) == [kind |-> "URLError", err |-> e]
\* an error whose only method besides Error is Unwrap (fmt.Errorf("...%w", e))
WrapError(e) == [kind |-> "WrapError", err |-> e]
SyscallError(e) == [kind |-> "SyscallError", err |-> e]
Errno(n) == [kind |-> "Errno", n |-> n]
\* an error with neither a recognised type nor Unwrap (errors.New)
PlainError(msg) == [kind |-> "PlainError", msg |-> msg]

\* Mutant: a network operation error does not expose its cause.
Unwrap_NotOpError(e) ==
    IF e.kind \in {"K6Error", "URLError", "WrapError", "SyscallError"}
    THEN e.err ELSE Nil

\* errors.Unwrap: the wrapped error of the types that implement Unwrap, else nil
Unwrap(e) ==
    IF e.kind \in {"K6Error", "OpError", "URLError", "WrapError", "SyscallError"}
    THEN e.err ELSE Nil

\* http2.ErrCode.String: the name of an enumerated code, else its hex rendering
RECURSIVE Hex(_)
Hex(n) ==
    LET d == n % 16
        s == IF d < 10 THEN ToString(d)
             ELSE CASE d = 10 -> "a" [] d = 11 -> "b" [] d = 12 -> "c"
                    [] d = 13 -> "d" [] d = 14 -> "e" [] OTHER -> "f"
    IN IF n < 16 THEN s ELSE Hex(n \div 16) \o s

http2ErrCodeName(c) ==
    CASE c = 0 -> "NO_ERROR" [] c = 1 -> "PROTOCOL_ERROR" [] c = 2 -> "INTERNAL_ERROR"
      [] c = 3 -> "FLOW_CONTROL_ERROR" [] c = 4 -> "SETTINGS_TIMEOUT"
      [] c = 5 -> "STREAM_CLOSED" [] c = 6 -> "FRAME_SIZE_ERROR"
      [] c = 7 -> "REFUSED_STREAM" [] c = 8 -> "CANCEL" [] c = 9 -> "COMPRESSION_ERROR"
      [] c = 10 -> "CONNECT_ERROR" [] c = 11 -> "ENHANCE_YOUR_CALM"
      [] c = 12 -> "INADEQUATE_SECURITY" [] c = 13 -> "HTTP_1_1_REQUIRED"
      [] OTHER -> "unknown error code 0x" \o Hex(c)

\* syscall.Errno.Error on linux: the table entry of the number, else "errno <n>"
ErrnoText(n) ==
    CASE n = ECONNRESET -> "connection reset by peer"
      [] n = EPIPE -> "broken pipe"
      [] n = ECONNREFUSED -> "connection refused"
      [] n = ETIMEDOUT -> "connection timed out"
      [] OTHER -> "errno " \o ToString(n)

\* the run-time panic raised by a method call on a nil error value; it stands for
\* the text of an error whose Error() call panics
PanicText == "runtime error: invalid memory address or nil pointer dereference"
\* the outcome of a classification that panics instead of returning (no ErrCode is
\* negative)
Panics == <<-1, PanicText>>
\* the character U+0060 (back quote) of the two errno messages; a TLA+ string
\* cannot hold it, and no other message of the classifier holds the character
\* written for it here
BackQuote == "'"

\* prefix + err.Error(): a panic of the Error() call propagates to the caller
Concat(prefix, inner) == IF inner = PanicText THEN PanicText ELSE prefix \o inner
\* an error operand formatted by package fmt: a nil operand is reported as a bad
\* verb, and a panic of its Error() call is recovered and reported in the text
FmtError(verb, e, inner) ==
    IF e = Nil THEN "%!" \o verb \o "(<nil>)"
    ELSE IF inner = PanicText
    THEN "%!" \o verb \o "(PANIC=Error method: " \o PanicText \o ")"
    ELSE inner
\* return code, err.Error(): no result when the Error() call panics
WithText(code, text) == IF text = PanicText THEN Panics ELSE <<code, text>>

\* error.Error(): the rendered text of an error.  net.OpError and os.SyscallError
\* call Err.Error() themselves; url.Error and the error of fmt.Errorf format the
\* wrapped error through package fmt (verbs %s and %w, the latter printed as %v).
\* The fields a leaf error prints besides its code are fixed: a GOAWAY frame with
\* LastStreamID 0 and no debug data, the address 10.0.0.1 in the blacklisted net
\* 10.0.0.0/8, the host blocked.test under the pattern *.test, a certificate
\* without names checked against h.test, and stream 1.
RECURSIVE ErrorText(_)
ErrorText(e) ==
    CASE e.kind = "K6Error" -> e.msg
      [] e.kind = "DNSError" -> "lookup " \o e.name \o ": " \o e.derr
      [] e.kind = "BlackListedIPError" ->
           "IP (10.0.0.1) is in a blacklisted range (10.0.0.0/8)"
      [] e.kind = "BlockedHostError" ->
           "hostname (blocked.test) is in a blocked pattern (*.test)"
      [] e.kind = "GoAwayError" ->
           "http2: server sent GOAWAY and closed the connection; LastStreamID=0, ErrCode="
             \o http2ErrCodeName(e.code) \o ", debug=\"\""
      [] e.kind = "StreamError" -> "stream error: stream ID 1; " \o http2ErrCodeName(e.code)
      [] e.kind = "ConnectionError" -> "connection error: " \o http2ErrCodeName(e.code)
      [] e.kind = "OpError" ->
           Concat(e.op \o " " \o e.net \o ": ", ErrorText(e.err))
      [] e.kind = "UnknownAuthorityError" -> "x509: certificate signed by unknown authority"
      [] e.kind = "HostnameError" ->
           "x509: certificate is not valid for any names, but wanted to match h.test"
      [] e.kind = "RecordHeaderError" -> "tls: " \o e.msg
      [] e.kind = "URLError" ->
           "Get \"http://h/\": " \o FmtError("s", e.err, ErrorText(e.err))
      [] e.kind = "WrapError" -> "wrapped: " \o FmtError("v", e.err, ErrorText(e.err))
      [] e.kind = "SyscallError" -> Concat("connect: ", ErrorText(e.err))
      [] e.kind = "Errno" -> ErrnoText(e.n)
      [] e.kind = "PlainError" -> e.msg
      [] OTHER -> PanicText

\* Mutant: the last enumerated code is treated as unknown too.
http2ErrCodeOffset_GeLast(code) ==
    IF code >= ErrCodeHTTP11Required THEN 0 ELSE 1 + code

\* Mutant: the offset of a subcode beyond the enumerated ones is not cut to 0.
http2ErrCodeOffset_NoCap(code) == 1 + code

\* error_codes.go http2ErrCodeOffset
http2ErrCodeOffset(code) ==
    IF code > ErrCodeHTTP11Required THEN 0 ELSE 1 + code

\* Mutant: the Windows reset number is recognised on every build.
getOSSyscallErrorCode_AllBuilds(e, se) ==
    IF Unwrap(se) = Errno(WSAECONNRESET)
    THEN <<tcpResetByPeerErrorCode, e.op \o ": connection reset by peer">>
    ELSE <<0, "">>

\* syscall_windows getOSSyscallErrorCode; the other builds have no case
getOSSyscallErrorCode(e, se) ==
    IF GOOS = "windows" /\ Unwrap(se) = Errno(WSAECONNRESET)
    THEN <<tcpResetByPeerErrorCode, e.op \o ": connection reset by peer">>
    ELSE <<0, "">>

RECURSIVE ErrorCodeForError(_)
RECURSIVE errorCodeForNetOpError(_)

errorCodeForNetOpError(e) ==
    LET isSys == e.err.kind = "SyscallError"
        os == IF isSys THEN getOSSyscallErrorCode(e, e.err) ELSE <<0, "">>
        wrapped == Unwrap(e)
        forWrapped == IF wrapped # Nil THEN ErrorCodeForError(wrapped)
                      ELSE <<defaultErrorCode, "">>
    IN
    IF e.net # "tcp" /\ e.net # "tcp6"
    THEN WithText(defaultNetNonTCPErrorCode, ErrorText(e))
    ELSE IF isSys /\ Unwrap(e.err) = Errno(ECONNRESET)
    THEN <<tcpResetByPeerErrorCode, e.op \o ": connection reset by peer">>
    ELSE IF isSys /\ Unwrap(e.err) = Errno(EPIPE)
    THEN <<tcpBrokenPipeErrorCode, e.op \o ": broken pipe">>
    ELSE IF isSys /\ os[1] # 0
    THEN os
    ELSE IF e.op # "dial"
    THEN IF e.err.kind = "Errno"
         THEN <<netUnknownErrnoErrorCode,
                e.op \o ": unknown errno " \o BackQuote \o ToString(e.err.n) \o BackQuote
                  \o " on " \o GOOS \o " with message " \o BackQuote
                  \o ErrnoText(e.err.n) \o BackQuote>>
         ELSE WithText(defaultTCPErrorCode, ErrorText(e))
    ELSE IF isSys /\ e.err.err.kind = "Errno"
    THEN IF e.err.err.n = ECONNREFUSED
            \/ (e.err.err.n = WSAECONNREFUSED /\ GOOS = "windows")
         THEN <<tcpDialRefusedErrorCode, "dial: connection refused">>
         ELSE <<tcpDialUnknownErrnoCode,
                "dial: unknown errno " \o ToString(e.err.err.n) \o " error with msg "
                  \o BackQuote \o ErrnoText(e.err.err.n) \o BackQuote>>
    ELSE IF wrapped # Nil /\ forWrapped[1] # defaultErrorCode
    THEN forWrapped
    ELSE WithText(tcpDialErrorCode, ErrorText(e))

\* Mutant: a K6Error that wraps an error is classified by that error.
K6ErrorResult_ByCause(e) ==
    IF e.err # Nil THEN ErrorCodeForError(e.err) ELSE <<e.code, e.msg>>
\* the K6Error case of the type switch (error_codes.go 163-164)
K6ErrorResult(e) == <<e.code, e.msg>>

\* Mutant: the *url.Error case answers the generic code instead of recursing.
ErrorCodeForWrapper_URLIsGeneric(e) ==
    IF e.kind = "URLError" THEN WithText(defaultErrorCode, ErrorText(e))
    ELSE IF Unwrap(e) # Nil THEN ErrorCodeForError(Unwrap(e))
    ELSE WithText(defaultErrorCode, ErrorText(e))

\* Mutant: the default branch answers for the error itself without unwrapping it.
ErrorCodeForWrapper_NoUnwrap(e) ==
    IF e.kind = "URLError" THEN ErrorCodeForError(e.err)
    ELSE WithText(defaultErrorCode, ErrorText(e))

\* the *url.Error case of the type switch and its default branch; the nil error
\* takes the default branch, where err.Error() panics
ErrorCodeForWrapper(e) ==
    IF e.kind = "URLError" THEN ErrorCodeForError(e.err)
    ELSE IF Unwrap(e) # Nil THEN ErrorCodeForError(Unwrap(e))
    ELSE WithText(defaultErrorCode, ErrorText(e))

ErrorCodeForError(e) ==
    CASE e.kind = "K6Error" -> K6ErrorResult(e)
      [] e.kind = "DNSError" ->
           IF e.derr = "no such host"
           THEN <<dnsNoSuchHostErrorCode, "lookup: no such host">>
           ELSE WithText(defaultDNSErrorCode, ErrorText(e))
      [] e.kind = "BlackListedIPError" -> <<blackListedIPErrorCode, "ip is blacklisted">>
      [] e.kind = "BlockedHostError" -> <<blockedHostnameErrorCode, "hostname is blocked">>
      [] e.kind = "GoAwayError" ->
           <<unknownHTTP2GoAwayErrorCode + http2ErrCodeOffset(e.code),
             "http2: received GoAway with http2 ErrCode " \o http2ErrCodeName(e.code)>>
      [] e.kind = "StreamError" ->
           <<unknownHTTP2StreamErrorCode + http2ErrCodeOffset(e.code),
             "http2: stream error with http2 ErrCode " \o http2ErrCodeName(e.code)>>
      [] e.kind = "ConnectionError" ->
           <<unknownHTTP2ConnectionErrorCode + http2ErrCodeOffset(e.code),
             "http2: connection error with http2 ErrCode " \o http2ErrCodeName(e.code)>>
      [] e.kind = "OpError" -> errorCodeForNetOpError(e)
      [] e.kind = "UnknownAuthorityError" ->
           <<x509UnknownAuthorityErrorCode, "x509: unknown authority">>
      [] e.kind = "HostnameError" ->
           <<x509HostnameErrorCode, "x509: certificate doesn't match hostname">>
      [] e.kind = "RecordHeaderError" -> WithText(tlsHeaderErrorCode, ErrorText(e))
      [] OTHER -> ErrorCodeForWrapper(e)

(***************************************************************************)
(* The bounded universe of error chains                                    *)
(***************************************************************************)
ErrnoValues == {ECONNRESET, EPIPE, ECONNREFUSED, ETIMEDOUT, WSAECONNRESET, WSAECONNREFUSED}
Http2Codes == {0, 7, ErrCodeHTTP11Required, ErrCodeHTTP11Required + 1, 255}

LeafErrors ==
    {PlainError("EOF"), DNSError("no such host", "h.test"),
     DNSError("server misbehaving", "h.test"), BlackListedIPError, BlockedHostError,
     UnknownAuthorityError, HostnameError,
     RecordHeaderError("first record does not look like a TLS handshake"),
     K6Error(1050, "request timeout", Nil)}
      \cup {GoAwayError(c) : c \in Http2Codes}
      \cup {StreamError(c) : c \in Http2Codes}
      \cup {ConnectionError(c) : c \in Http2Codes}
      \cup {Errno(n) : n \in ErrnoValues}

\* the errors that wrap an error of S, and the wrappers that hold no cause: a
\* url.Error, a net.OpError and an os.SyscallError are structs whose Err may be nil
\* (fmt.Errorf gives no Unwrap to an error built from a nil operand)
WrappersOf(S) ==
    {URLError(e) : e \in S \cup {Nil}} \cup {WrapError(e) : e \in S}
      \cup {SyscallError(e) : e \in {x \in S : x.kind = "Errno"} \cup {Nil}}
      \cup {OpError(op, net, e) :
               op \in {"dial", "read"}, net \in {"tcp", "udp"}, e \in S \cup {Nil}}
      \cup {K6Error(1050, "request timeout", e) : e \in S}

RECURSIVE ErrorChains(_)
ErrorChains(d) ==
    IF d <= 1 THEN LeafErrors
    ELSE LET S == ErrorChains(d - 1) IN S \cup WrappersOf(S)

NoResult == <<0, "">>
\* a group without check records
NoChecks == [x \in {} |-> [Passes |-> 0, Fails |-> 0]]

(***************************************************************************)
(* Pooled objects of the transport (valyala/fasthttp)                      *)
(***************************************************************************)
\* a zero fasthttp.Request, as AcquireRequest returns it
NewRequest ==
    [method |-> "", uri |-> "", host |-> "", body |-> "", bodyStream |-> FALSE,
     connClose |-> FALSE, headers |-> FALSE]
\* a zero fasthttp.Response, as AcquireResponse returns it and Reset leaves it
NewResponse == [status |-> 0, bodyRead |-> FALSE, streamClosed |-> FALSE]

\* the status ResponseHeader.StatusCode reports for a header that holds none
StatusOK == 200
\* Response.StatusCode of the response object behind handle h
StatusCode(h) == IF respObj[h].status = 0 THEN StatusOK ELSE respObj[h].status
\* Request.Header.Method of the request object behind handle h
Method(h) == IF reqObj[h].method = "" THEN "GET" ELSE reqObj[h].method
\* Request.URI().String()
URI(h) == reqObj[h].uri

(***************************************************************************)
(* tracer/tracer.go: Trail                                                 *)
(***************************************************************************)
NewTrail(addr) == [ConnRemoteAddr |-> addr, Failed |-> "unset", Samples |-> <<>>]

\* Trail.Failed (a null.Bool) after metrics.go 147-151: Valid is set, and Bool is set
\* when the request failed but never cleared.  "unset" is the zero value, "false"
\* and "true" are the valid ones.
MarkFailed(old, failed) == IF failed = 1 \/ old = "true" THEN "true" ELSE "false"

Sample(metric, value, tags) == [metric |-> metric, value |-> value, tags |-> tags]

\* Mutant: SaveSamples appends to the samples the Trail already holds.
SaveSamples_Append(trail, tags) ==
    [trail EXCEPT !.Samples = @ \o <<Sample("http_reqs", 1, tags),
                                     Sample("http_req_duration", 1, tags)>>]

\* Trail.SaveSamples: the sample slice is made anew and the two base samples appended
SaveSamples(trail, tags) ==
    [trail EXCEPT !.Samples = <<>> \o <<Sample("http_reqs", 1, tags),
                                         Sample("http_req_duration", 1, tags)>>]

(***************************************************************************)
(* metrics/metrics.go: MetricDispatcher                                    *)
(***************************************************************************)
\* the system tags k6 enables by default
DefaultSystemTags ==
    {"proto", "subproto", "status", "method", "url", "name", "group", "check",
     "error", "error_code", "tls_version", "scenario", "service", "expected_response"}

NoTags == [x \in {} |-> ""]
HasTag(tags, k) == k \in DOMAIN tags
SetTag(tags, k, v) == [x \in (DOMAIN tags) \cup {k} |-> IF x = k THEN v ELSE tags[x]]
\* TagsAndMeta.SetSystemTagOrMetaIfEnabled
SetSystemTagOrMetaIfEnabled(tags, k, v) ==
    IF k \in enabledTags THEN SetTag(tags, k, v) ELSE tags

\* TagsAndMeta.Clone of the dispatcher's tag context
TagsAndMetaClone == IF nameTag = "" THEN NoTags ELSE SetTag(NoTags, "name", nameTag)

\* net.SplitHostPort: <<host, port, ok>>
SplitHostPort(addr) ==
    CASE addr = "10.0.0.1:80" -> <<"10.0.0.1", "80", TRUE>>
      [] addr = "[::1]:443" -> <<"::1", "443", TRUE>>
      [] OTHER -> <<"", "", FALSE>>

\* the response-expectation predicate (k6's default: 200..399 are expected)
CallResponseCallback(status) == status >= 200 /\ status <= 399

\* Mutant: the url tag is the request URI even when a name tag is set.
NameURLTags_UrlFromURI(tags, uri) ==
    IF ~HasTag(tags, "name")
    THEN SetSystemTagOrMetaIfEnabled(SetSystemTagOrMetaIfEnabled(tags, "name", uri), "url", uri)
    ELSE SetSystemTagOrMetaIfEnabled(tags, "url", uri)

\* name/url tag pair (metrics.go 95-110)
NameURLTags(tags, uri) ==
    IF ~HasTag(tags, "name")
    THEN SetSystemTagOrMetaIfEnabled(SetSystemTagOrMetaIfEnabled(tags, "name", uri), "url", uri)
    ELSE SetSystemTagOrMetaIfEnabled(tags, "url", tags["name"])

\* the synthetic code of a completed response (metrics.go 121-123), 0 = none; a
\* status line holds three digits, so the uint32 conversion never wraps
StatusErrorCode(status) == IF status >= 400 THEN 1000 + status ELSE 0

\* Mutant: a request with an error is tagged with the response's status.
FailureStatusTag_FromResponse(u) == ToString(StatusCode(u.Response))
\* the status tag of a request that carries an error (metrics.go 118)
FailureStatusTag(u) == "0"

\* the tags and resolved code of a request that carries an error, whose
\* classification is r (metrics.go 115-118)
ErrorOutcome(tags, u, r) ==
    <<SetSystemTagOrMetaIfEnabled(
          SetSystemTagOrMetaIfEnabled(
              SetSystemTagOrMetaIfEnabled(tags, "error", r[2]),
              "error_code", ToString(r[1])),
          "status", FailureStatusTag(u)),
      r[1], r[2]>>

\* the tags and resolved code of a completed response of the given status
\* (metrics.go 119-124)
StatusOutcome(tags, status) ==
    IF status >= 400
    THEN <<SetSystemTagOrMetaIfEnabled(
               SetSystemTagOrMetaIfEnabled(tags, "status", ToString(status)),
               "error_code", ToString(StatusErrorCode(status))),
           StatusErrorCode(status), "">>
    ELSE <<SetSystemTagOrMetaIfEnabled(tags, "status", ToString(status)), 0, "">>

\* Mutant: a status of 400 or more gives the status-derived code even when the
\* request carries an error.
OutcomeTags_StatusFirst(tags, u) ==
    IF StatusCode(u.Response) >= 400
    THEN StatusOutcome(tags, StatusCode(u.Response))
    ELSE IF u.Err # Nil
         THEN ErrorOutcome(tags, u, ErrorCodeForError(u.Err))
         ELSE StatusOutcome(tags, StatusCode(u.Response))

\* error / status tags and the resolved code (metrics.go 114-125): <<tags, code, msg>>
OutcomeTags(tags, u) ==
    IF u.Err # Nil
    THEN ErrorOutcome(tags, u, ErrorCodeForError(u.Err))
    ELSE StatusOutcome(tags, StatusCode(u.Response))

\* ip tag (metrics.go 127-131)
IPTag(tags, trail) ==
    IF "ip" \in enabledTags /\ trail.ConnRemoteAddr # "" /\ SplitHostPort(trail.ConnRemoteAddr)[3]
    THEN SetTag(tags, "ip", SplitHostPort(trail.ConnRemoteAddr)[1])
    ELSE tags

\* Mutant: the response callback is handed the response's status even when the
\* request carries an error.
CallbackStatus_FromResponse(u) == StatusCode(u.Response)
\* the status handed to the response callback (metrics.go 134-137)
CallbackStatus(u) == IF u.Err = Nil THEN StatusCode(u.Response) ELSE 0

\* whether the response callback accepts the request's outcome (metrics.go 133-138)
Expected(u) == CallResponseCallback(CallbackStatus(u))

\* the expected_response tag (metrics.go 139-147), set only with a callback
ExpectedTag(tags, u) ==
    IF responseCallback # "nil"
    THEN SetSystemTagOrMetaIfEnabled(tags, "expected_response",
                                     IF Expected(u) THEN "true" ELSE "false")
    ELSE tags

\* the trail after SaveSamples and, with a callback, the http_req_failed sample
\* (metrics.go 139-160)
FinishTrail(trail, tags, u) ==
    IF responseCallback # "nil"
    THEN [SaveSamples(trail, tags) EXCEPT
            !.Failed = MarkFailed(@, IF Expected(u) THEN 0 ELSE 1),
            !.Samples = Append(@, Sample("http_req_failed",
                                         IF Expected(u) THEN 0 ELSE 1, tags))]
    ELSE SaveSamples(trail, tags)

\* the pushed batch, given the outcome o and the final tag set (metrics.go 149-166)
PushedBatch(id, u, o, tags) ==
    [id |-> id, ErrorCode |-> o[2], ErrorMsg |-> o[3], tags |-> tags,
     Trail |-> FinishTrail(u.Trail, tags, u), Err |-> u.Err]

\* the batch of a request whose outcome is o (metrics.go 127-166)
EmitOutcome(id, u, o) == PushedBatch(id, u, o, ExpectedTag(IPTag(o[1], u.Trail), u))

\* MetricDispatcher.measureAndEmitMetrics: the batch pushed for request id, whose
\* record (after error enrichment) is u
measureAndEmitMetrics(id, u) ==
    EmitOutcome(id, u,
        OutcomeTags(
            SetSystemTagOrMetaIfEnabled(NameURLTags(TagsAndMetaClone, URI(u.Request)),
                                        "method", Method(u.Request)),
            u))

(***************************************************************************)
(* Callers                                                                 *)
(***************************************************************************)
Callers == 1..NumCallers

NoLoc ==
    [op |-> "", cur |-> 0, lastErr |-> Nil, unprocessed |-> 0, ret |-> "idle",
     method |-> "", resp |-> 0, doErr |-> Nil, n |-> 0,
     result |-> [resp |-> "none", err |-> Nil], reused |-> FALSE]

\* metrics.PushIfNotDone(ctx, State.Samples, trail) for the finished request f: the
\* Trail's samples are sent unless the context is done.  The entry keeps the
\* FinishedRequest fields and the call that emitted it.
Batch(f, c, op, lastErr) ==
    [id |-> f.id, ErrorCode |-> f.ErrorCode, ErrorMsg |-> f.ErrorMsg, tags |-> f.tags,
     Samples |-> f.Trail.Samples, Failed |-> f.Trail.Failed, Err |-> f.Err,
     by |-> c, op |-> op, lastErr |-> lastErr, pushed |-> ~ctxDone]

\* Mutant: the error handed to the drain replaces the one the request carries.
AttachErr_Overwrite(reqErr, lastErr) == IF lastErr # Nil THEN lastErr ELSE reqErr
\* error enrichment of ProcessLastSavedRequest (metrics.go 58-60)
AttachErr(reqErr, lastErr) == IF reqErr = Nil /\ lastErr # Nil THEN lastErr ELSE reqErr

\* Mutant: the drain reads the slot and leaves the request staged.
SlotAfterDrain_Keep(slot) == slot
\* the slot after ProcessLastSavedRequest took it (metrics.go 51)
SlotAfterDrain(slot) == 0

\* ProcessLastSavedRequest, lines 49-51: lock, take the slot, leave it empty
PLSLockSwap(c) ==
    /\ pc[c] = "pls_lock"
    /\ lastRequestLock = 0
    /\ lastRequestLock' = c
    /\ loc' = [loc EXCEPT ![c].unprocessed = lastRequest]
    /\ lastRequest' = SlotAfterDrain(lastRequest)
    /\ hist' = Append(hist, [op |-> "drain", c |-> c, n |-> loc[c].n,
                              took |-> lastRequest, put |-> 0])
    /\ pc' = [pc EXCEPT ![c] = "pls_unlock"]
    /\ UNCHANGED <<mode, ctxDone, GOOS, jsEngine, checks, err, cres, metrics, onceDone, onceM,
                   responseCallback, nameTag, enabledTags, unf, sink, warned, reqObj,
                   respObj, respFree, reqw, ncalls>>

\* ProcessLastSavedRequest, line 52 and the nil test of line 54
PLSUnlock(c) ==
    /\ pc[c] = "pls_unlock"
    /\ lastRequestLock = c
    /\ lastRequestLock' = 0
    /\ pc' = [pc EXCEPT ![c] = IF loc[c].unprocessed # 0 THEN "pls_emit" ELSE loc[c].ret]
    /\ UNCHANGED <<mode, ctxDone, GOOS, jsEngine, checks, err, cres, metrics, onceDone, onceM,
                   lastRequest, responseCallback, nameTag, enabledTags, unf, sink, warned,
                   reqObj, respObj, respFree, reqw, loc, hist, ncalls>>

\* Mutant: the drain measures and emits the most recently built request instead of
\* the one it took from the slot.
PLSEmit_Latest(c) ==
    /\ pc[c] = "pls_emit"
    /\ LET id == Len(unf)
           u == [unf[id] EXCEPT !.Err = AttachErr(unf[id].Err, loc[c].lastErr)]
           b == measureAndEmitMetrics(id, u)
       IN /\ unf' = [unf EXCEPT ![id] = [u EXCEPT !.Trail = b.Trail]]
          /\ sink' = Append(sink, Batch(b, c, "drain", loc[c].lastErr))
    /\ pc' = [pc EXCEPT ![c] = loc[c].ret]
    /\ UNCHANGED <<mode, ctxDone, GOOS, jsEngine, checks, err, cres, metrics, onceDone, onceM,
                   lastRequest, lastRequestLock, responseCallback, nameTag, enabledTags,
                   warned, reqObj, respObj, respFree, reqw, loc, hist, ncalls>>

\* ProcessLastSavedRequest, lines 54-63: enrich the error, measure and emit
PLSEmit(c) ==
    /\ pc[c] = "pls_emit"
    /\ LET id == loc[c].unprocessed
           u == [unf[id] EXCEPT !.Err = AttachErr(unf[id].Err, loc[c].lastErr)]
           b == measureAndEmitMetrics(id, u)
       IN /\ unf' = [unf EXCEPT ![id] = [u EXCEPT !.Trail = b.Trail]]
          /\ sink' = Append(sink, Batch(b, c, "drain", loc[c].lastErr))
    /\ pc' = [pc EXCEPT ![c] = loc[c].ret]
    /\ UNCHANGED <<mode, ctxDone, GOOS, jsEngine, checks, err, cres, metrics, onceDone, onceM,
                   lastRequest, lastRequestLock, responseCallback, nameTag, enabledTags,
                   warned, reqObj, respObj, respFree, reqw, loc, hist, ncalls>>

\* SaveCurrentRequest, lines 68-70: lock, swap the slot for the new request
SCRLockSwap(c) ==
    /\ pc[c] = "scr_lock"
    /\ lastRequestLock = 0
    /\ lastRequestLock' = c
    /\ loc' = [loc EXCEPT ![c].unprocessed = lastRequest]
    /\ lastRequest' = loc[c].cur
    /\ hist' = Append(hist, [op |-> "stage", c |-> c, n |-> loc[c].n,
                              took |-> lastRequest, put |-> loc[c].cur])
    /\ pc' = [pc EXCEPT ![c] = "scr_unlock"]
    /\ UNCHANGED <<mode, ctxDone, GOOS, jsEngine, checks, err, cres, metrics, onceDone, onceM,
                   responseCallback, nameTag, enabledTags, unf, sink, warned, reqObj,
                   respObj, respFree, reqw, ncalls>>

\* Mutant: the stage returns without emitting the request it displaced.
SCRUnlock_NoEmit(c) ==
    /\ pc[c] = "scr_unlock"
    /\ lastRequestLock = c
    /\ lastRequestLock' = 0
    /\ pc' = [pc EXCEPT ![c] = loc[c].ret]
    /\ UNCHANGED <<mode, ctxDone, GOOS, jsEngine, checks, err, cres, metrics, onceDone, onceM,
                   lastRequest, responseCallback, nameTag, enabledTags, unf, sink, warned,
                   reqObj, respObj, respFree, reqw, loc, hist, ncalls>>

\* Mutant: a stage that displaced nothing returns without releasing the mutex.
SCRUnlock_HoldOnEmpty(c) ==
    /\ pc[c] = "scr_unlock"
    /\ lastRequestLock = c
    /\ lastRequestLock' = IF loc[c].unprocessed # 0 THEN 0 ELSE c
    /\ pc' = [pc EXCEPT ![c] = IF loc[c].unprocessed # 0 THEN "scr_emit" ELSE loc[c].ret]
    /\ UNCHANGED <<mode, ctxDone, GOOS, jsEngine, checks, err, cres, metrics, onceDone, onceM,
                   lastRequest, responseCallback, nameTag, enabledTags, unf, sink, warned,
                   reqObj, respObj, respFree, reqw, loc, hist, ncalls>>

\* SaveCurrentRequest, line 71 and the nil test of line 73
SCRUnlock(c) ==
    /\ pc[c] = "scr_unlock"
    /\ lastRequestLock = c
    /\ lastRequestLock' = 0
    /\ pc' = [pc EXCEPT ![c] = IF loc[c].unprocessed # 0 THEN "scr_emit" ELSE loc[c].ret]
    /\ UNCHANGED <<mode, ctxDone, GOOS, jsEngine, checks, err, cres, metrics, onceDone, onceM,
                   lastRequest, responseCallback, nameTag, enabledTags, unf, sink, warned,
                   reqObj, respObj, respFree, reqw, loc, hist, ncalls>>

\* SaveCurrentRequest, lines 73-77: warn, measure and emit the displaced request
SCREmit(c) ==
    /\ pc[c] = "scr_emit"
    /\ LET id == loc[c].unprocessed
           b == measureAndEmitMetrics(id, unf[id])
       IN /\ unf' = [unf EXCEPT ![id].Trail = b.Trail]
          /\ sink' = Append(sink, Batch(b, c, "stage", Nil))
          /\ warned' = warned \cup {id}
    /\ pc' = [pc EXCEPT ![c] = loc[c].ret]
    /\ UNCHANGED <<mode, ctxDone, GOOS, jsEngine, checks, err, cres, metrics, onceDone, onceM,
                   lastRequest, lastRequestLock, responseCallback, nameTag, enabledTags,
                   reqObj, respObj, respFree, reqw, loc, hist, ncalls>>

(***************************************************************************)
(* SpecClassify: ErrorCodeForError applied to every bounded error chain,   *)
(* on the linux build (the numbers and texts of syscall.Errno on the       *)
(* windows build belong to the standard library of that build)             *)
(***************************************************************************)
InitClassify ==
    /\ mode = "classify"
    /\ ctxDone = FALSE
    /\ GOOS = "linux"
    /\ jsEngine = "goja" /\ checks = NoChecks
    /\ err \in ErrorChains(MaxDepth)
    /\ cres = NoResult
    /\ metrics = 0 /\ onceDone = FALSE /\ onceM = 0
    /\ lastRequest = 0 /\ lastRequestLock = 0
    /\ responseCallback = "nil" /\ nameTag = "" /\ enabledTags = DefaultSystemTags
    /\ unf = <<>> /\ sink = <<>> /\ warned = {}
    /\ reqObj = <<>> /\ respObj = <<>> /\ respFree = {}
    /\ reqw = <<>>
    /\ pc = [c \in Callers |-> "idle"]
    /\ loc = [c \in Callers |-> NoLoc]
    /\ hist = <<>> /\ ncalls = 0

Classify ==
    /\ mode = "classify"
    /\ cres = NoResult
    /\ cres' = ErrorCodeForError(err)
    /\ UNCHANGED <<mode, ctxDone, GOOS, jsEngine, checks, err, metrics, onceDone, onceM,
                   lastRequest, lastRequestLock, responseCallback, nameTag, enabledTags,
                   unf, sink, warned, reqObj, respObj, respFree, reqw, pc, loc, hist,
                   ncalls>>

NextClassify == Classify

SpecClassify == InitClassify /\ [][NextClassify]_vars

(***************************************************************************)
(* SpecDisp: callers invoke the two dispatcher operations directly         *)
(***************************************************************************)
\* the error of a round trip that failed before a response arrived
DialRefused == OpError("dial", "tcp", SyscallError(Errno(ECONNREFUSED)))
\* an error a caller discovers after the round trip and hands to the drain
LateErr == WrapError(DNSError("no such host", "h.test"))

\* the unfinished requests callers stage: request and response handles into the
\* heaps InitDisp builds, and the transport error
DispStageInputs ==
    {[Request |-> 1, Response |-> 1, Err |-> Nil, addr |-> ""],
     [Request |-> 2, Response |-> 2, Err |-> Nil, addr |-> "10.0.0.1:80"],
     [Request |-> 1, Response |-> 3, Err |-> DialRefused, addr |-> ""]}

\* the dispatchers callers are given: no callback and no name tag under the default
\* system tags, or a callback and a user-set name tag with the ip tag enabled too
DispConfigs ==
    {[responseCallback |-> "nil", nameTag |-> "", enabledTags |-> DefaultSystemTags],
     [responseCallback |-> "expected", nameTag |-> "custom",
      enabledTags |-> DefaultSystemTags \cup {"ip"}]}

InitDisp ==
    /\ mode = "disp"
    /\ ctxDone = FALSE
    /\ GOOS = "linux"
    /\ jsEngine = "goja" /\ checks = NoChecks
    /\ err = Nil /\ cres = NoResult
    /\ metrics = 1 /\ onceDone = TRUE /\ onceM = 0
    /\ lastRequest = 0 /\ lastRequestLock = 0
    /\ \E cfg \in DispConfigs :
         /\ responseCallback = cfg.responseCallback
         /\ nameTag = cfg.nameTag
         /\ enabledTags = cfg.enabledTags
    /\ unf = <<>> /\ sink = <<>> /\ warned = {}
    /\ reqObj = <<[NewRequest EXCEPT !.method = "GET", !.uri = "http://h.test/a"],
                  [NewRequest EXCEPT !.method = "POST", !.uri = "http://h.test/b",
                                     !.body = "payload"]>>
    /\ respObj = <<[NewResponse EXCEPT !.status = 200],
                   [NewResponse EXCEPT !.status = 404], NewResponse>>
    /\ respFree = {}
    /\ reqw = <<>>
    /\ pc = [c \in Callers |-> "idle"]
    /\ loc = [c \in Callers |-> NoLoc]
    /\ hist = <<>> /\ ncalls = 0

\* Callers are interchangeable, so only the runs in which they make their first
\* call in the order of their numbers are explored.
MayStart(c) == \A d \in Callers : d < c => loc[d].op # ""

\* a caller builds an UnfinishedRequest and calls SaveCurrentRequest
DispStage(c) ==
    /\ mode = "disp"
    /\ pc[c] = "idle"
    /\ ncalls < MaxOps
    /\ MayStart(c)
    /\ \E in \in DispStageInputs :
         unf' = Append(unf, [Request |-> in.Request, Response |-> in.Response,
                             Err |-> in.Err, Trail |-> NewTrail(in.addr),
                             sentMethod |-> Method(in.Request),
                             gotStatus |-> respObj[in.Response].status,
                             staged |-> in.Err])
    /\ loc' = [loc EXCEPT ![c] = [NoLoc EXCEPT !.op = "stage", !.cur = Len(unf) + 1,
                                             !.n = ncalls + 1]]
    /\ pc' = [pc EXCEPT ![c] = "scr_lock"]
    /\ ncalls' = ncalls + 1
    /\ UNCHANGED <<mode, ctxDone, GOOS, jsEngine, checks, err, cres, metrics, onceDone, onceM,
                   lastRequest, lastRequestLock, responseCallback, nameTag, enabledTags,
                   sink, warned, reqObj, respObj, respFree, reqw, hist>>

\* a caller calls ProcessLastSavedRequest(lastErr)
DispDrain(c) ==
    /\ mode = "disp"
    /\ pc[c] = "idle"
    /\ ncalls < MaxOps
    /\ MayStart(c)
    /\ \E lastErr \in {Nil, LateErr} :
         loc' = [loc EXCEPT ![c] = [NoLoc EXCEPT !.op = "drain", !.lastErr = lastErr,
                                             !.n = ncalls + 1]]
    /\ pc' = [pc EXCEPT ![c] = "pls_lock"]
    /\ ncalls' = ncalls + 1
    /\ UNCHANGED <<mode, ctxDone, GOOS, jsEngine, checks, err, cres, metrics, onceDone, onceM,
                   lastRequest, lastRequestLock, responseCallback, nameTag, enabledTags,
                   unf, sink, warned, reqObj, respObj, respFree, reqw, hist>>

\* the runner cancels the VU's context (the iteration is interrupted or the test
\* ends), at any moment of the calls under way
ContextDone ==
    /\ ~ctxDone
    /\ ctxDone' = TRUE
    /\ UNCHANGED <<mode, GOOS, jsEngine, checks, err, cres, metrics, onceDone, onceM,
                   lastRequest, lastRequestLock, responseCallback, nameTag, enabledTags,
                   unf, sink, warned, reqObj, respObj, respFree, reqw, pc, loc, hist,
                   ncalls>>

Dispatcher(c) ==
    \/ PLSLockSwap(c) \/ PLSUnlock(c) \/ PLSEmit(c)
    \/ SCRLockSwap(c) \/ SCRUnlock(c) \/ SCREmit(c)

\* SpecDisp: the callers' context stays live
NextDisp == \E c \in Callers : DispStage(c) \/ DispDrain(c) \/ Dispatcher(c)

SpecDisp == InitDisp /\ [][NextDisp]_vars

\* SpecPush: one caller stages and drains, and its context may be cancelled
NextPush ==
    \/ \E c \in {1} : DispStage(c) \/ DispDrain(c) \/ Dispatcher(c)
    \/ ContextDone

SpecPush == InitDisp /\ [][NextPush]_vars

(***************************************************************************)
(* Spec: round trips through Client.makeReq / Client.do.  A client belongs  *)
(* to one VU, whose JavaScript runs on one goroutine: the calls of a client *)
(* follow one another.                                                      *)
(***************************************************************************)
ClientCallers == {1}

\* the error of a failed Seek on a FileStream body
SeekErr == PlainError("seek: file already closed")
\* setupNewReq's error for a body of another type (metrics.go 378)
BodyTypeErr == PlainError("req body type not supported")

\* Request.SetBody
SetBody(r, b) == [r EXCEPT !.body = b, !.bodyStream = FALSE]
\* Request.SetBodyStream: the body is reset and the stream installed (nil: none)
SetBodyStream(r, present) == [r EXCEPT !.body = "", !.bodyStream = present]
\* Request.Header.SetMethod
SetMethod(r, method) == [r EXCEPT !.method = method]

\* setBody (metrics.go 326-328)
setBody(method, body) == body # "nil" /\ method # "HEAD" /\ method # "GET"

\* Mutant: a call without a body sets the method and leaves body and stream alone.
setupCachedReq_KeepBody(r, w, method, seekOk) ==
    IF setBody(method, w.Body)
    THEN IF w.Body = "FileStream"
         THEN IF seekOk THEN [req |-> SetBodyStream(r, TRUE), err |-> Nil]
              ELSE [req |-> r, err |-> SeekErr]
         ELSE [req |-> r, err |-> Nil]
    ELSE [req |-> SetMethod(r, method), err |-> Nil]

\* Client.setupCachedReq on the pooled request r: [req, err]
setupCachedReq(r, w, method, seekOk) ==
    IF setBody(method, w.Body)
    THEN IF w.Body = "FileStream"
         THEN IF seekOk THEN [req |-> SetBodyStream(r, TRUE), err |-> Nil]
              ELSE [req |-> r, err |-> SeekErr]
         ELSE [req |-> r, err |-> Nil]
    ELSE [req |-> SetMethod(SetBodyStream(SetBody(r, ""), FALSE), method), err |-> Nil]

\* setupNewReq, lines 355-360: URI and Host header
SetURIAndHost(r, w) ==
    IF w.Host # "" THEN [r EXCEPT !.uri = w.Url, !.host = w.Host]
    ELSE [r EXCEPT !.uri = w.Url]

\* setupNewReq, lines 382-389: connection close, headers, method
SetHeadersAndMethod(r, w, method) ==
    [r EXCEPT !.connClose = w.DisableKeepAlive, !.headers = w.Headers, !.method = method]

\* Client.setupNewReq on the fresh request r: [req, err]
setupNewReq(r, w, method, seekOk) ==
    IF setBody(method, w.Body)
    THEN CASE w.Body \in {"string", "ArrayBuffer"} ->
                [req |-> SetHeadersAndMethod(SetBody(SetURIAndHost(r, w), "payload"),
                                             w, method),
                 err |-> Nil]
           [] w.Body = "FileStream" ->
                IF seekOk
                THEN [req |-> SetHeadersAndMethod(SetBodyStream(SetURIAndHost(r, w), TRUE),
                                                  w, method),
                      err |-> Nil]
                ELSE [req |-> SetURIAndHost(r, w), err |-> SeekErr]
           [] OTHER -> [req |-> SetURIAndHost(r, w), err |-> BodyTypeErr]
    ELSE [req |-> SetHeadersAndMethod(SetURIAndHost(r, w), w, method), err |-> Nil]

\* Mutant: readResponseBody reads the content whatever the status is.
readResponseBody_NoSkip(respType, status) ==
    IF respType = "none" THEN <<"nil", Nil>>
    ELSE CASE respType = "text" -> <<"text body", Nil>>
           [] respType = "binary" -> <<"binary body", Nil>>
           [] OTHER -> <<"nil", PlainError("unknown responseType " \o respType)>>

\* readResponseBody: <<body, err>>
readResponseBody(respType, status) ==
    IF respType = "none" THEN <<"nil", Nil>>
    ELSE IF (status >= 100 /\ status <= 199) \/ status = 204 \/ status = 304
    THEN <<"nil", Nil>>
    ELSE CASE respType = "text" -> <<"text body", Nil>>
           [] respType = "binary" -> <<"binary body", Nil>>
           [] OTHER -> <<"nil", PlainError("unknown responseType " \o respType)>>

\* the request objects scripts build (module.go Request): one per run; streamPos and
\* streamOpen are the read position and the state of the file behind a FileStream
\* body
RequestWrappers ==
    {[Throw |-> FALSE, DisableKeepAlive |-> FALSE, Url |-> "http://h.test/a", Host |-> "",
      Headers |-> FALSE, Body |-> "nil", responseType |-> "text", req |-> 0, reqPool |-> {},
      streamPos |-> "start", streamOpen |-> TRUE],
     [Throw |-> TRUE, DisableKeepAlive |-> TRUE, Url |-> "http://h.test/b",
      Host |-> "alt.test", Headers |-> TRUE, Body |-> "string", responseType |-> "none",
      req |-> 0, reqPool |-> {},
      streamPos |-> "start", streamOpen |-> TRUE],
     [Throw |-> FALSE, DisableKeepAlive |-> FALSE, Url |-> "http://h.test/c", Host |-> "",
      Headers |-> FALSE, Body |-> "FileStream", responseType |-> "binary", req |-> 0,
      reqPool |-> {},
      streamPos |-> "start", streamOpen |-> TRUE],
     [Throw |-> TRUE, DisableKeepAlive |-> FALSE, Url |-> "http://h.test/d", Host |-> "",
      Headers |-> FALSE, Body |-> "other", responseType |-> "text", req |-> 0,
      reqPool |-> {},
      streamPos |-> "start", streamOpen |-> TRUE]}

\* the methods of the calls: Client.Get, Post, Put, Patch, Delete, Options (296-324)
Methods == {"GET", "POST", "PUT", "PATCH", "DELETE", "OPTIONS"}

\* what fhc.Do leaves behind: a response status, or a transport error
TransportOutcomes ==
    {[status |-> 200, err |-> Nil], [status |-> 404, err |-> Nil],
     [status |-> 0, err |-> DialRefused]}

\* the status another client's round trip receives (503 Service Unavailable)
OtherStatus == 503

InitClient ==
    /\ mode = "client"
    /\ ctxDone = FALSE
    /\ GOOS = "linux"
    /\ jsEngine = "goja" /\ checks = NoChecks
    /\ err = Nil /\ cres = NoResult
    /\ metrics = 0 /\ onceDone = FALSE /\ onceM = 0
    /\ lastRequest = 0 /\ lastRequestLock = 0
    /\ responseCallback = "nil" /\ nameTag = "" /\ enabledTags = DefaultSystemTags
    /\ unf = <<>> /\ sink = <<>> /\ warned = {}
    /\ reqObj = <<>> /\ respObj = <<>> /\ respFree = {}
    /\ \E w \in RequestWrappers : reqw = <<w>>
    /\ pc = [c \in Callers |-> "idle"]
    /\ loc = [c \in Callers |-> NoLoc]
    /\ hist = <<>> /\ ncalls = 0

\* sync.Pool.Get: one of the pooled objects, or nothing (0) when the pool is empty
\* or a garbage collection since the last Put emptied the pools
PoolGet(pool, miss) == IF miss \/ pool = {} THEN {0} ELSE pool

\* Mutant: do stages the new request without draining the staged one first.
AfterAcquire_SkipDrain == "do_send"
\* where do continues after AcquireResponse: ProcessLastSavedRequest (metrics.go 435)
AfterAcquire == "pls_lock"

\* the call rewinds the FileStream body: f.Seek(0, 0) in setupCachedReq (metrics.go
\* 335-340) and setupNewReq (370-375); the Seek fails on a closed file
Seeks(w, method) == w.Body = "FileStream" /\ setBody(method, w.Body)

\* Mutant: Close on a FileStream closes the file.
FileStreamClose_Closes(open) == FALSE
\* FileStream.Close: returns nil and leaves the file open
FileStreamClose(open) == open

\* what the transport reads from a body stream whose file is at position pos
StreamPayload(pos) == IF pos = "start" THEN "full" ELSE "empty"

\* Mutant: the Once runs its function again although the done flag is set.
OnceDo_NoRecheck(done, m) == m + 1
\* metricsSetupOnce.Do(f) once the Once's mutex is held (sync.Once.doSlow): f makes a
\* new dispatcher unless the done flag is set; the result is Client.metrics
OnceDo(done, m) == IF done THEN m ELSE m + 1

\* sync.Once.Do: the fast path, a load of the done flag
OnceLoad(c) ==
    /\ pc[c] = "once_load"
    /\ pc' = [pc EXCEPT ![c] = IF onceDone THEN "do_enter" ELSE "once_lock"]
    /\ UNCHANGED <<mode, ctxDone, GOOS, jsEngine, checks, err, cres, metrics, onceDone, onceM,
                   lastRequest, lastRequestLock, responseCallback, nameTag, enabledTags,
                   unf, sink, warned, reqObj, respObj, respFree, reqw, loc, hist, ncalls>>

\* sync.Once.doSlow: o.m.Lock()
OnceLock(c) ==
    /\ pc[c] = "once_lock"
    /\ onceM = 0
    /\ onceM' = c
    /\ pc' = [pc EXCEPT ![c] = "once_slow"]
    /\ UNCHANGED <<mode, ctxDone, GOOS, jsEngine, checks, err, cres, metrics, onceDone,
                   lastRequest, lastRequestLock, responseCallback, nameTag, enabledTags,
                   unf, sink, warned, reqObj, respObj, respFree, reqw, loc, hist, ncalls>>

\* sync.Once.doSlow under the mutex: the done flag is loaded again and, if unset,
\* the function runs: makeReq lines 411-414, NewMetricDispatcher with an empty slot
OnceRun(c) ==
    /\ pc[c] = "once_slow"
    /\ onceM = c
    /\ metrics' = OnceDo(onceDone, metrics)
    /\ lastRequest' = IF metrics' # metrics THEN 0 ELSE lastRequest
    /\ hist' = IF metrics' # metrics
               THEN Append(hist, [op |-> "create", c |-> c, n |-> loc[c].n,
                                  disp |-> metrics'])
               ELSE hist
    /\ pc' = [pc EXCEPT ![c] = IF metrics' # metrics THEN "once_store" ELSE "once_unlock"]
    /\ UNCHANGED <<mode, ctxDone, GOOS, jsEngine, checks, err, cres, onceDone, onceM,
                   lastRequestLock, responseCallback, nameTag, enabledTags,
                   unf, sink, warned, reqObj, respObj, respFree, reqw, loc, ncalls>>

\* sync.Once.doSlow: the deferred o.done.Store(1)
OnceStore(c) ==
    /\ pc[c] = "once_store"
    /\ onceDone' = TRUE
    /\ pc' = [pc EXCEPT ![c] = "once_unlock"]
    /\ UNCHANGED <<mode, ctxDone, GOOS, jsEngine, checks, err, cres, metrics, onceM,
                   lastRequest, lastRequestLock, responseCallback, nameTag, enabledTags,
                   unf, sink, warned, reqObj, respObj, respFree, reqw, loc, hist, ncalls>>

\* sync.Once.doSlow: the deferred o.m.Unlock()
OnceUnlock(c) ==
    /\ pc[c] = "once_unlock"
    /\ onceM = c
    /\ onceM' = 0
    /\ pc' = [pc EXCEPT ![c] = "do_enter"]
    /\ UNCHANGED <<mode, ctxDone, GOOS, jsEngine, checks, err, cres, metrics, onceDone,
                   lastRequest, lastRequestLock, responseCallback, nameTag, enabledTags,
                   unf, sink, warned, reqObj, respObj, respFree, reqw, loc, hist, ncalls>>

\* Client.makeReq lines 394-409: a request from the wrapper's pool (sync.Pool may
\* hand out nothing) or a new one is set up; a setup error returns at once, before
\* the Once and the response pool are touched; else the call goes on to
\* metricsSetupOnce.Do (OnceLoad to OnceUnlock) and to do (DoAcquire)
MakeReq(c) ==
    /\ mode = "client"
    /\ pc[c] = "idle"
    /\ ncalls < MaxCalls
    /\ \E method \in Methods, miss \in BOOLEAN, seekOk \in BOOLEAN :
       \E r \in PoolGet(reqw[1].reqPool, miss) :
         LET w == reqw[1]
             h == IF r # 0 THEN r ELSE Len(reqObj) + 1
             s == IF r # 0 THEN setupCachedReq(reqObj[r], w, method, seekOk)
                  ELSE setupNewReq(NewRequest, w, method, seekOk)
         IN /\ (seekOk = FALSE) => Seeks(w, method)
            /\ (Seeks(w, method) /\ ~w.streamOpen) => (seekOk = FALSE)
            /\ reqObj' = IF r # 0 THEN [reqObj EXCEPT ![r] = s.req]
                         ELSE Append(reqObj, s.req)
            /\ reqw' = [reqw EXCEPT ![1].req = h, ![1].reqPool = @ \ {h},
                                    ![1].streamPos = IF Seeks(w, method) /\ seekOk
                                                     THEN "start" ELSE @]
            /\ IF s.err # Nil
               THEN /\ loc' = [loc EXCEPT ![c] =
                                 [NoLoc EXCEPT !.op = "makeReq", !.n = ncalls + 1,
                                               !.method = method, !.reused = (r # 0),
                                               !.result = [resp |-> "nil", err |-> s.err]]]
                    /\ pc' = [pc EXCEPT ![c] = "idle"]
               ELSE /\ loc' = [loc EXCEPT ![c] =
                                 [NoLoc EXCEPT !.op = "makeReq", !.n = ncalls + 1,
                                               !.method = method, !.reused = (r # 0),
                                               !.ret = "do_send"]]
                    /\ pc' = [pc EXCEPT ![c] = "once_load"]
    /\ ncalls' = ncalls + 1
    /\ UNCHANGED <<mode, ctxDone, GOOS, jsEngine, checks, err, cres, metrics, onceDone, onceM,
                   lastRequest, lastRequestLock, responseCallback, nameTag, enabledTags,
                   unf, sink, warned, respObj, respFree, hist>>

\* Client.do line 426, reached when metricsSetupOnce.Do has returned: a response is
\* acquired from the transport's pool, which hits or misses independently of the
\* wrapper's; do goes on to ProcessLastSavedRequest
DoAcquire(c) ==
    /\ mode = "client"
    /\ pc[c] = "do_enter"
    /\ \E miss \in BOOLEAN : \E a \in PoolGet(respFree, miss) :
         /\ respObj' = IF a # 0 THEN respObj ELSE Append(respObj, NewResponse)
         /\ respFree' = respFree \ {a}
         /\ loc' = [loc EXCEPT ![c].resp = IF a # 0 THEN a ELSE Len(respObj) + 1]
    /\ pc' = [pc EXCEPT ![c] = AfterAcquire]
    /\ UNCHANGED <<mode, ctxDone, GOOS, jsEngine, checks, err, cres, metrics, onceDone, onceM,
                   lastRequest, lastRequestLock, responseCallback, nameTag, enabledTags,
                   unf, sink, warned, reqObj, reqw, hist, ncalls>>

\* Client.do lines 437-448: the round trip, then the UnfinishedRequest handed to
\* SaveCurrentRequest.  A round trip that gets a response has written the request:
\* a body stream is read to its end and closed.  sentMethod, sentBody, sentStream,
\* sentPayload, gotStatus and staged record what the round trip sent and received,
\* callMethod and reused the call that made it.
DoSend(c) ==
    /\ mode = "client"
    /\ pc[c] = "do_send"
    /\ \E out \in TransportOutcomes :
         LET h == reqw[1].req
             rh == loc[c].resp
         IN /\ respObj' = IF out.err = Nil THEN [respObj EXCEPT ![rh].status = out.status]
                          ELSE respObj
            /\ reqObj' = IF out.err = Nil THEN [reqObj EXCEPT ![h].bodyStream = FALSE]
                         ELSE reqObj
            /\ reqw' = IF out.err = Nil /\ reqObj[h].bodyStream
                       THEN [reqw EXCEPT ![1].streamPos = "end",
                                         ![1].streamOpen = FileStreamClose(@)]
                       ELSE reqw
            /\ unf' = Append(unf, [Request |-> h, Response |-> rh, Err |-> out.err,
                                   Trail |-> NewTrail(""), sentMethod |-> Method(h),
                                   gotStatus |-> out.status, staged |-> out.err,
                                   sentBody |-> reqObj[h].body,
                                   sentStream |-> reqObj[h].bodyStream,
                                   sentPayload |-> IF reqObj[h].bodyStream
                                                   THEN StreamPayload(reqw[1].streamPos)
                                                   ELSE "none",
                                   callMethod |-> loc[c].method,
                                   reused |-> loc[c].reused])
            /\ loc' = [loc EXCEPT ![c].cur = Len(unf) + 1, ![c].doErr = out.err,
                                  ![c].unprocessed = 0, ![c].ret = "do_finish"]
    /\ pc' = [pc EXCEPT ![c] = "scr_lock"]
    /\ UNCHANGED <<mode, ctxDone, GOOS, jsEngine, checks, err, cres, metrics, onceDone, onceM,
                   lastRequest, lastRequestLock, responseCallback, nameTag, enabledTags,
                   sink, warned, respFree, hist, ncalls>>

\* Response.ErrorCode and Response.Error: the classification of the error of
\* readResponseBody (metrics.go 470-474), the zero values without one
BodyErrorCode(e) == IF e # Nil THEN ErrorCodeForError(e) ELSE <<0, "">>

\* the Response object do builds (metrics.go 457-475), "nil" after a transport error
BuildResponse(w, rh, doErr) ==
    IF doErr # Nil THEN "nil"
    ELSE [Status |-> StatusCode(rh), URL |-> URI(w.req),
          Body |-> readResponseBody(w.responseType, StatusCode(rh))[1],
          ErrorCode |-> BodyErrorCode(readResponseBody(w.responseType, StatusCode(rh))[2])[1],
          Error |-> BodyErrorCode(readResponseBody(w.responseType, StatusCode(rh))[2])[2]]

\* the error do returns before its deferred function runs (metrics.go 450-477)
DoError(w, rh, doErr) ==
    IF doErr # Nil THEN doErr ELSE readResponseBody(w.responseType, StatusCode(rh))[2]

\* what makeReq returns: do's deferred function clears the error unless Throw is set
\* (metrics.go 430-432), and makeReq drops the response of a call that returned an
\* error (metrics.go 418-422)
MakeReqResult(w, response, doErr) ==
    IF w.Throw /\ doErr # Nil THEN [resp |-> "nil", err |-> doErr]
    ELSE [resp |-> response, err |-> Nil]

\* Client.do lines 450-478 with its deferred function (428-433) and makeReq's
\* (406-409): the result is built, the response is reset and released to the
\* transport's pool, the request goes back to the wrapper's pool
DoFinish(c) ==
    /\ mode = "client"
    /\ pc[c] = "do_finish"
    /\ LET w == reqw[1]
           rh == loc[c].resp
       IN /\ loc' = [loc EXCEPT ![c].result =
                       MakeReqResult(w, BuildResponse(w, rh, loc[c].doErr),
                                     DoError(w, rh, loc[c].doErr))]
          /\ respObj' = [respObj EXCEPT ![rh] = NewResponse]
          /\ respFree' = respFree \cup {rh}
          /\ reqw' = [reqw EXCEPT ![1].reqPool = @ \cup {w.req}, ![1].req = 0]
    /\ pc' = [pc EXCEPT ![c] = "idle"]
    /\ UNCHANGED <<mode, ctxDone, GOOS, jsEngine, checks, err, cres, metrics, onceDone, onceM,
                   lastRequest, lastRequestLock, responseCallback, nameTag, enabledTags,
                   unf, sink, warned, reqObj, hist, ncalls>>

\* The transport's response pool is shared by the clients of the process.  Between
\* two calls of this client, a round trip of another client acquires the released
\* response the staged request still refers to and stores its own status in it;
\* one such round trip is followed.
OtherClientRoundTrip ==
    /\ mode = "client"
    /\ \A c \in ClientCallers : pc[c] = "idle"
    /\ lastRequest # 0
    /\ unf[lastRequest].Response \in respFree
    /\ \A h \in 1..Len(respObj) : respObj[h].status # OtherStatus
    /\ respFree' = respFree \ {unf[lastRequest].Response}
    /\ respObj' = [respObj EXCEPT ![unf[lastRequest].Response].status = OtherStatus]
    /\ UNCHANGED <<mode, ctxDone, GOOS, jsEngine, checks, err, cres, metrics, onceDone, onceM,
                   lastRequest, lastRequestLock, responseCallback, nameTag, enabledTags,
                   unf, sink, warned, reqObj, reqw, pc, loc, hist, ncalls>>

\* the dispatcher steps of a round trip: do drains before it stages, so that
\* SaveCurrentRequest finds the slot empty and returns after SCRUnlock (that no call
\* is ever left at "scr_emit" is part of C2_EmittedBeforeNextStaged)
ClientDispatcher(c) ==
    \/ PLSLockSwap(c) \/ PLSUnlock(c) \/ PLSEmit(c)
    \/ SCRLockSwap(c) \/ SCRUnlock(c)

\* metricsSetupOnce.Do (metrics.go 411-414) as sync.Once runs it
ClientOnce(c) ==
    OnceLoad(c) \/ OnceLock(c) \/ OnceRun(c) \/ OnceStore(c) \/ OnceUnlock(c)

NextClient ==
    \/ \E c \in ClientCallers :
         \/ MakeReq(c) \/ ClientOnce(c) \/ DoAcquire(c)
         \/ DoSend(c) \/ DoFinish(c) \/ ClientDispatcher(c)
    \/ OtherClientRoundTrip

Spec == InitClient /\ [][NextClient]_vars

(***************************************************************************)
(* SpecDo: several callers run Client.do on one client at the same time,    *)
(* as goroutines sharing the client would (metrics.go 425-478): a response  *)
(* is acquired, the slot drained, the round trip made and staged, the       *)
(* result built and the response released.                                  *)
(***************************************************************************)
\* the round trips: request 2 answered with status 404, or request 1 refused at dial
DoInputs ==
    {[Request |-> 2, status |-> 404, Err |-> Nil],
     [Request |-> 1, status |-> 0, Err |-> DialRefused]}

\* the request object the calls of do are handed: no Throw, a text response
DoWrapper ==
    [Throw |-> FALSE, DisableKeepAlive |-> FALSE, Url |-> "http://h.test/a", Host |-> "",
     Headers |-> FALSE, Body |-> "nil", responseType |-> "text", req |-> 0, reqPool |-> {},
     streamPos |-> "start", streamOpen |-> TRUE]

InitDo ==
    /\ mode = "do"
    /\ ctxDone = FALSE
    /\ GOOS = "linux"
    /\ jsEngine = "goja" /\ checks = NoChecks
    /\ err = Nil /\ cres = NoResult
    /\ metrics = 1 /\ onceDone = TRUE /\ onceM = 0
    /\ lastRequest = 0 /\ lastRequestLock = 0
    /\ responseCallback = "nil" /\ nameTag = ""
    /\ enabledTags = DefaultSystemTags
    /\ unf = <<>> /\ sink = <<>> /\ warned = {}
    /\ reqObj = <<[NewRequest EXCEPT !.method = "GET", !.uri = "http://h.test/a"],
                  [NewRequest EXCEPT !.method = "POST", !.uri = "http://h.test/b",
                                     !.body = "payload"]>>
    /\ respObj = <<>>
    /\ respFree = {}
    /\ reqw = <<>>
    /\ pc = [c \in Callers |-> "idle"]
    /\ loc = [c \in Callers |-> NoLoc]
    /\ hist = <<>> /\ ncalls = 0

\* Mutant: do goes to the round trip without draining the slot first.
DoStart_NoDrain(c) ==
    /\ mode = "do"
    /\ pc[c] = "idle"
    /\ ncalls < MaxDos
    /\ MayStart(c)
    /\ \E miss \in BOOLEAN : \E a \in PoolGet(respFree, miss) :
         /\ respObj' = IF a # 0 THEN respObj ELSE Append(respObj, NewResponse)
         /\ respFree' = respFree \ {a}
         /\ loc' = [loc EXCEPT ![c] =
                      [NoLoc EXCEPT !.op = "do", !.n = ncalls + 1, !.ret = "do_send",
                                    !.resp = IF a # 0 THEN a ELSE Len(respObj) + 1]]
    /\ pc' = [pc EXCEPT ![c] = "do_send"]
    /\ ncalls' = ncalls + 1
    /\ UNCHANGED <<mode, ctxDone, GOOS, jsEngine, checks, err, cres, metrics, onceDone, onceM,
                   lastRequest, lastRequestLock, responseCallback, nameTag, enabledTags,
                   unf, sink, warned, reqObj, reqw, hist>>

\* Client.do lines 426-435: a response is acquired from the transport's pool (reused
\* or new), then the call begins with ProcessLastSavedRequest(ctx, nil)
DoStart(c) ==
    /\ mode = "do"
    /\ pc[c] = "idle"
    /\ ncalls < MaxDos
    /\ MayStart(c)
    /\ \E miss \in BOOLEAN : \E a \in PoolGet(respFree, miss) :
         /\ respObj' = IF a # 0 THEN respObj ELSE Append(respObj, NewResponse)
         /\ respFree' = respFree \ {a}
         /\ loc' = [loc EXCEPT ![c] =
                      [NoLoc EXCEPT !.op = "do", !.n = ncalls + 1, !.ret = "do_send",
                                    !.resp = IF a # 0 THEN a ELSE Len(respObj) + 1]]
    /\ pc' = [pc EXCEPT ![c] = AfterAcquire]
    /\ ncalls' = ncalls + 1
    /\ UNCHANGED <<mode, ctxDone, GOOS, jsEngine, checks, err, cres, metrics, onceDone, onceM,
                   lastRequest, lastRequestLock, responseCallback, nameTag, enabledTags,
                   unf, sink, warned, reqObj, reqw, hist>>

\* Client.do lines 437-448: the round trip, which on success stores the status in
\* the call's response, then SaveCurrentRequest on its UnfinishedRequest, whose Trail
\* holds the duration only
DoRoundTrip(c) ==
    /\ mode = "do"
    /\ pc[c] = "do_send"
    /\ \E in \in DoInputs :
         /\ respObj' = IF in.Err = Nil
                       THEN [respObj EXCEPT ![loc[c].resp].status = in.status]
                       ELSE respObj
         /\ unf' = Append(unf, [Request |-> in.Request, Response |-> loc[c].resp,
                                Err |-> in.Err, Trail |-> NewTrail(""),
                                sentMethod |-> Method(in.Request),
                                gotStatus |-> in.status,
                                staged |-> in.Err])
         /\ loc' = [loc EXCEPT ![c].cur = Len(unf) + 1, ![c].unprocessed = 0,
                               ![c].doErr = in.Err, ![c].ret = "do_return"]
    /\ pc' = [pc EXCEPT ![c] = "scr_lock"]
    /\ UNCHANGED <<mode, ctxDone, GOOS, jsEngine, checks, err, cres, metrics, onceDone, onceM,
                   lastRequest, lastRequestLock, responseCallback, nameTag, enabledTags,
                   sink, warned, reqObj, respFree, reqw, hist, ncalls>>

\* Client.do lines 450-478 with its deferred function (428-433): the result is
\* built, the error cleared unless Throw is set, and the response reset and
\* released to the transport's pool
DoReturn(c) ==
    /\ mode = "do"
    /\ pc[c] = "do_return"
    /\ LET w == [DoWrapper EXCEPT !.req = unf[loc[c].cur].Request]
           rh == loc[c].resp
       IN /\ loc' = [loc EXCEPT ![c].result =
                       [resp |-> BuildResponse(w, rh, loc[c].doErr),
                        err |-> IF w.Throw THEN DoError(w, rh, loc[c].doErr) ELSE Nil]]
          /\ respObj' = [respObj EXCEPT ![rh] = NewResponse]
          /\ respFree' = respFree \cup {rh}
    /\ pc' = [pc EXCEPT ![c] = "idle"]
    /\ UNCHANGED <<mode, ctxDone, GOOS, jsEngine, checks, err, cres, metrics, onceDone, onceM,
                   lastRequest, lastRequestLock, responseCallback, nameTag, enabledTags,
                   unf, sink, warned, reqObj, reqw, hist, ncalls>>

NextDo == \E c \in Callers : DoStart(c) \/ DoRoundTrip(c) \/ DoReturn(c) \/ Dispatcher(c)

SpecDo == InitDo /\ [][NextDo]_vars

(***************************************************************************)
(* SpecOnce: several callers invoke makeReq on one client at the same time. *)
(* Each call sets up its request, goes through metricsSetupOnce.Do          *)
(* (sync.Once: a load of the done flag, then under the Once's mutex a       *)
(* second load, the function, the store of the flag) and enters do, which   *)
(* uses Client.metrics.                                                     *)
(***************************************************************************)
InitOnce ==
    /\ mode = "once"
    /\ ctxDone = FALSE
    /\ GOOS = "linux"
    /\ jsEngine = "goja" /\ checks = NoChecks
    /\ err = Nil /\ cres = NoResult
    /\ metrics = 0 /\ onceDone = FALSE /\ onceM = 0
    /\ lastRequest = 0 /\ lastRequestLock = 0
    /\ responseCallback = "nil" /\ nameTag = "" /\ enabledTags = DefaultSystemTags
    /\ unf = <<>> /\ sink = <<>> /\ warned = {}
    /\ reqObj = <<>> /\ respObj = <<>> /\ respFree = {}
    /\ reqw = <<>>
    /\ pc = [c \in Callers |-> "idle"]
    /\ loc = [c \in Callers |-> NoLoc]
    /\ hist = <<>> /\ ncalls = 0

\* Client.makeReq lines 394-404: the request is set up; a setup error returns
\* before the Once is reached
OnceMakeReq(c) ==
    /\ mode = "once"
    /\ pc[c] = "idle"
    /\ ncalls < MaxMakes
    /\ MayStart(c)
    /\ \E w \in RequestWrappers, method \in Methods :
         LET s == setupNewReq(NewRequest, w, method, TRUE)
         IN /\ loc' = [loc EXCEPT ![c] =
                         [NoLoc EXCEPT !.op = "makeReq", !.n = ncalls + 1,
                                       !.result = IF s.err # Nil
                                                  THEN [resp |-> "nil", err |-> s.err]
                                                  ELSE @]]
            /\ pc' = [pc EXCEPT ![c] = IF s.err # Nil THEN "idle" ELSE "once_load"]
            /\ hist' = IF s.err # Nil
                       THEN Append(hist, [op |-> "setupErr", c |-> c, n |-> ncalls + 1,
                                          disp |-> metrics])
                       ELSE hist
    /\ ncalls' = ncalls + 1
    /\ UNCHANGED <<mode, ctxDone, GOOS, jsEngine, checks, err, cres, metrics, onceDone, onceM,
                   lastRequest, lastRequestLock, responseCallback, nameTag, enabledTags,
                   unf, sink, warned, reqObj, respObj, respFree, reqw>>

\* Client.do line 435: the call uses Client.metrics; hist records which dispatcher
\* (0: none) it found there
DoEnter(c) ==
    /\ mode = "once"
    /\ pc[c] = "do_enter"
    /\ hist' = Append(hist, [op |-> "do", c |-> c, n |-> loc[c].n, disp |-> metrics])
    /\ pc' = [pc EXCEPT ![c] = "idle"]
    /\ UNCHANGED <<mode, ctxDone, GOOS, jsEngine, checks, err, cres, metrics, onceDone, onceM,
                   lastRequest, lastRequestLock, responseCallback, nameTag, enabledTags,
                   unf, sink, warned, reqObj, respObj, respFree, reqw, loc, ncalls>>

NextOnce ==
    \E c \in Callers :
        \/ OnceMakeReq(c) \/ OnceLoad(c) \/ OnceLock(c) \/ OnceRun(c)
        \/ OnceStore(c) \/ OnceUnlock(c) \/ DoEnter(c)

SpecOnce == InitOnce /\ [][NextOnce]_vars

(***************************************************************************)
(* SpecBody: the end of Client.do (metrics.go 450-478) for one round trip    *)
(* that has been staged: the result is built, readResponseBody runs with    *)
(* its deferred function, and do's deferred function releases the response. *)
(* hist records the calls made on the response, in order.                   *)
(***************************************************************************)
\* the response types a request may ask for; "other" stands for a value that is
\* none of httpext's three
ResponseTypes == {"none", "text", "binary", "other"}
\* the statuses of the responses
BodyStatuses == {100, 101, 199, 200, 204, 304, 404}
\* the round trips: a response of one of the statuses, or a transport error
BodyOutcomes ==
    {[status |-> s, err |-> Nil] : s \in BodyStatuses} \cup {[status |-> 0, err |-> DialRefused]}
\* the request objects: with and without Throw, asking for each response type
BodyWrappers ==
    {[w EXCEPT !.responseType = t, !.req = 1] :
        w \in {x \in RequestWrappers : x.Body \in {"nil", "string"}}, t \in ResponseTypes}

\* the calls readResponseBody makes on the response, in order: the read of the
\* content (json.js 72, 74) unless it returned before, then the deferred Body and
\* CloseBodyStream (51-54)
readResponseBodyCalls(respType, status) ==
    (IF readResponseBody(respType, status)[1] # "nil" THEN <<"Body">> ELSE <<>>)
        \o <<"deferred Body", "CloseBodyStream">>

InitBody ==
    /\ mode = "body"
    /\ ctxDone = FALSE
    /\ GOOS = "linux"
    /\ jsEngine = "goja" /\ checks = NoChecks
    /\ err = Nil /\ cres = NoResult
    /\ metrics = 1 /\ onceDone = TRUE /\ onceM = 0
    /\ lastRequest = 1 /\ lastRequestLock = 0
    /\ responseCallback = "nil" /\ nameTag = "" /\ enabledTags = DefaultSystemTags
    /\ reqObj = <<[NewRequest EXCEPT !.method = "GET", !.uri = "http://h.test/a"]>>
    /\ \E out \in BodyOutcomes :
         /\ respObj = <<[NewResponse EXCEPT !.status = out.status]>>
         /\ unf = <<[Request |-> 1, Response |-> 1, Err |-> out.err,
                     Trail |-> NewTrail(""), sentMethod |-> "GET",
                     gotStatus |-> out.status, staged |-> out.err]>>
         /\ loc = [c \in Callers |->
                     IF c = 1 THEN [NoLoc EXCEPT !.op = "makeReq", !.n = 1, !.resp = 1,
                                                  !.cur = 1, !.doErr = out.err]
                     ELSE NoLoc]
    /\ sink = <<>> /\ warned = {}
    /\ respFree = {}
    /\ reqw \in {<<w>> : w \in BodyWrappers}
    /\ pc = [c \in Callers |-> IF c = 1 THEN "do_body" ELSE "idle"]
    /\ hist = <<>> /\ ncalls = 1

\* Client.do lines 450-477: after a transport error do returns at once; else the
\* Response object is built and readResponseBody runs, its deferred function
\* reading what is left of the body and closing the body stream
DoReadBody(c) ==
    /\ mode = "body"
    /\ pc[c] = "do_body"
    /\ LET w == reqw[1]
           rh == loc[c].resp
       IN /\ loc' = [loc EXCEPT ![c].result =
                       [resp |-> BuildResponse(w, rh, loc[c].doErr),
                        err |-> DoError(w, rh, loc[c].doErr)]]
          /\ respObj' = IF loc[c].doErr # Nil THEN respObj
                        ELSE [respObj EXCEPT ![rh].bodyRead = TRUE,
                                             ![rh].streamClosed = TRUE]
          /\ hist' = IF loc[c].doErr # Nil THEN hist
                     ELSE hist \o readResponseBodyCalls(w.responseType, StatusCode(rh))
    /\ pc' = [pc EXCEPT ![c] = "do_release"]
    /\ UNCHANGED <<mode, ctxDone, GOOS, jsEngine, checks, err, cres, metrics, onceDone, onceM,
                   lastRequest, lastRequestLock, responseCallback, nameTag, enabledTags,
                   unf, sink, warned, reqObj, respFree, reqw, ncalls>>

\* do's deferred function (metrics.go 428-433), makeReq's return (418-422) and its
\* deferred function (406-409): the response is reset and released to the
\* transport's pool; the error is cleared unless Throw is set, and a call that
\* returns an error returns no response; the request goes back to the wrapper's pool
DoRelease(c) ==
    /\ mode = "body"
    /\ pc[c] = "do_release"
    /\ loc' = [loc EXCEPT ![c].result =
                 MakeReqResult(reqw[1], loc[c].result.resp, loc[c].result.err)]
    /\ respObj' = [respObj EXCEPT ![loc[c].resp] = NewResponse]
    /\ respFree' = respFree \cup {loc[c].resp}
    /\ reqw' = [reqw EXCEPT ![1].reqPool = @ \cup {reqw[1].req}, ![1].req = 0]
    /\ hist' = Append(hist, "ReleaseResponse")
    /\ pc' = [pc EXCEPT ![c] = "idle"]
    /\ UNCHANGED <<mode, ctxDone, GOOS, jsEngine, checks, err, cres, metrics, onceDone, onceM,
                   lastRequest, lastRequestLock, responseCallback, nameTag, enabledTags,
                   unf, sink, warned, reqObj, ncalls>>

NextBody == \E c \in ClientCallers : DoReadBody(c) \/ DoRelease(c)

SpecBody == InitBody /\ [][NextBody]_vars

(***************************************************************************)
(* SpecCheck: checkstatus calls.  The tree holds ModuleInstance.CheckStatus *)
(* twice, written against goja (part_003) and against sobek (part_002); a   *)
(* build has one of them.  A VU is in the init context (pc = "init", no VU  *)
(* state) until its first iteration starts.                                 *)
(***************************************************************************)
\* k6.ErrCheckInInitContext
ErrCheckInInitContext == PlainError("Using check() in the init context is not supported")
ErrNilResponse == PlainError("nil response")
ErrNotResponse == PlainError("response object not given to CheckStatus")
\* the error of common.ApplyCustomUserTags for extras that are no tag object
ErrCustomTags == PlainError("invalid custom tags")

\* what a script passes as the response: nothing, an object that is no Response, or
\* the Response of a round trip
CheckObjects ==
    {[kind |-> "nil"], [kind |-> "Object"],
     [kind |-> "Response", Status |-> 200], [kind |-> "Response", Status |-> 404]}
\* the expected statuses of the calls
WantStatuses == {200, 404}
\* the optional third argument: absent, a tag object, or something that is neither
CheckExtras == {"none", "tags", "invalid"}

\* the name of the check: "check status is " + strconv.FormatInt(wantStatus, 10)
CheckName(want) == "check status is " \o ToString(want)

\* the error CheckStatus returns before it builds a sample, Nil if none (part_003
\* 15-38, part_002 15-38)
CheckStatusError(pos, r, extras) ==
    IF pos = "init" THEN ErrCheckInInitContext
    ELSE IF r.kind = "nil" THEN ErrNilResponse
    ELSE IF r.kind # "Response" THEN ErrNotResponse
    ELSE IF extras = "invalid" THEN ErrCustomTags
    ELSE Nil

\* the tags of the sample: the VU's current tags, the custom tags of extras, and
\* the check tag when that system tag is enabled
CheckTags(want, extras) ==
    LET common == IF extras = "tags" THEN SetTag(TagsAndMetaClone, "extra", "x")
                  ELSE TagsAndMetaClone
    IN IF "check" \in enabledTags THEN SetTag(common, "check", CheckName(want))
       ELSE common

\* the VUs that call CheckStatus: they share the root group's check records, the
\* samples channel and the context
CheckCallers == {1, 2}

InitCheck ==
    /\ mode = "check"
    /\ ctxDone = FALSE
    /\ GOOS = "linux"
    /\ jsEngine \in {"goja", "sobek"}
    /\ checks = NoChecks
    /\ err = Nil /\ cres = NoResult
    /\ metrics = 1 /\ onceDone = TRUE /\ onceM = 0
    /\ lastRequest = 1 /\ lastRequestLock = 0
    /\ responseCallback = "nil" /\ nameTag = ""
    /\ enabledTags \in {DefaultSystemTags, DefaultSystemTags \ {"check"}}
    /\ reqObj = <<[NewRequest EXCEPT !.method = "GET", !.uri = "http://h.test/a"]>>
    /\ respObj = <<NewResponse>>
    /\ unf = <<[Request |-> 1, Response |-> 1, Err |-> Nil, Trail |-> NewTrail(""),
                sentMethod |-> "GET", gotStatus |-> 200, staged |-> Nil]>>
    /\ sink = <<>> /\ warned = {}
    /\ respFree = {1}
    /\ reqw = <<>>
    /\ pc = [c \in Callers |-> "init"]
    /\ loc = [c \in Callers |-> NoLoc]
    /\ hist = <<>> /\ ncalls = 0

\* the VU leaves the init context: vu.State() is set from here on
StartVU(c) ==
    /\ mode = "check"
    /\ pc[c] = "init"
    /\ pc' = [pc EXCEPT ![c] = "idle"]
    /\ UNCHANGED <<mode, ctxDone, GOOS, jsEngine, checks, err, cres, metrics, onceDone, onceM,
                   lastRequest, lastRequestLock, responseCallback, nameTag, enabledTags,
                   unf, sink, warned, reqObj, respObj, respFree, reqw, loc, hist, ncalls>>

\* ModuleInstance.CheckStatus(want, r, extras) up to its first shared step: the
\* early returns, the tags and, in the goja build, Group.Check (part_003 41), which
\* under the mutex of the root group the VUs share returns the record of the name,
\* created with both counters 0 on the first use of the name.  hist records the
\* call; done says that it has returned.
CheckStatus(c) ==
    /\ mode = "check"
    /\ pc[c] \in {"init", "idle"}
    /\ MayStart(c)
    /\ ncalls < MaxChecks
    /\ \E want \in WantStatuses, r \in CheckObjects, extras \in CheckExtras :
         LET e == CheckStatusError(pc[c], r, extras)
             pass == e = Nil /\ r.Status = want
         IN /\ checks' = IF e # Nil \/ jsEngine # "goja" \/ CheckName(want) \in DOMAIN checks
                         THEN checks
                         ELSE [x \in (DOMAIN checks) \cup {CheckName(want)} |->
                                  IF x = CheckName(want) THEN [Passes |-> 0, Fails |-> 0]
                                  ELSE checks[x]]
            /\ hist' = Append(hist, [op |-> "CheckStatus", c |-> c, n |-> ncalls + 1,
                                      pos |-> pc[c], want |-> want, obj |-> r,
                                      extras |-> extras, pass |-> pass, err |-> e,
                                      slot |-> lastRequest, done |-> e # Nil])
            /\ pc' = IF e # Nil THEN pc
                     ELSE [pc EXCEPT ![c] = IF jsEngine = "goja" THEN "chk_count"
                                            ELSE "chk_push"]
    /\ loc' = [loc EXCEPT ![c] = [NoLoc EXCEPT !.op = "CheckStatus", !.n = ncalls + 1]]
    /\ ncalls' = ncalls + 1
    /\ UNCHANGED <<mode, ctxDone, GOOS, jsEngine, err, cres, metrics, onceDone, onceM, lastRequest,
                   lastRequestLock, responseCallback, nameTag, enabledTags, unf, sink,
                   warned, reqObj, respObj, respFree, reqw>>

\* the goja build counts the call on the record: atomic.AddInt64 on its Passes or
\* its Fails (part_003 63-68)
CheckCount(c) ==
    /\ mode = "check"
    /\ pc[c] = "chk_count"
    /\ checks' = [checks EXCEPT ![CheckName(hist[loc[c].n].want)] =
                      IF hist[loc[c].n].pass THEN [@ EXCEPT !.Passes = @ + 1]
                      ELSE [@ EXCEPT !.Fails = @ + 1]]
    /\ pc' = [pc EXCEPT ![c] = "chk_push"]
    /\ UNCHANGED <<mode, ctxDone, GOOS, jsEngine, err, cres, metrics, onceDone, onceM, lastRequest,
                   lastRequestLock, responseCallback, nameTag, enabledTags, unf, sink,
                   warned, reqObj, respObj, respFree, reqw, loc, hist, ncalls>>

\* metrics.PushIfNotDone(ctx, state.Samples, sample) and the return of pass
\* (part_003 70-72, part_002 59-61): the sample is sent unless the VU's context is
\* done; sink records the call, pushed whether the sample was sent.  The sample was
\* built with Value 0; the goja build has set 1 for a pass (part_003 63-68), the
\* sobek build leaves the 0 (part_002 49-59).
CheckPush(c) ==
    /\ mode = "check"
    /\ pc[c] = "chk_push"
    /\ sink' = Append(sink, [metric |-> "checks",
                             value |-> IF jsEngine = "goja" /\ hist[loc[c].n].pass
                                       THEN 1 ELSE 0,
                             tags |-> CheckTags(hist[loc[c].n].want, hist[loc[c].n].extras),
                             n |-> loc[c].n, pushed |-> ~ctxDone])
    /\ hist' = [hist EXCEPT ![loc[c].n].done = TRUE]
    /\ pc' = [pc EXCEPT ![c] = "idle"]
    /\ UNCHANGED <<mode, ctxDone, GOOS, jsEngine, checks, err, cres, metrics, onceDone, onceM,
                   lastRequest, lastRequestLock, responseCallback, nameTag, enabledTags,
                   unf, warned, reqObj, respObj, respFree, reqw, loc, ncalls>>

NextCheck ==
    \/ \E c \in CheckCallers : \/ StartVU(c)
                           \/ CheckStatus(c)
                           \/ CheckCount(c)
                           \/ CheckPush(c)
    \/ ContextDone

SpecCheck == InitCheck /\ [][NextCheck]_vars

(***************************************************************************)
(* SpecTrail: one Trail, held by unf[1], on which SaveSamples is called any *)
(* number of times, by itself or as the first of the steps with which      *)
(* measureAndEmitMetrics finishes a Trail.                                  *)
(***************************************************************************)
\* the tag sets handed to SaveSamples
TrailTagSets ==
    {NoTags, SetTag(NoTags, "status", "200"),
     SetTag(SetTag(NoTags, "status", "0"), "error_code", "1212")}

InitTrail ==
    /\ mode = "trail"
    /\ ctxDone = FALSE
    /\ GOOS = "linux"
    /\ jsEngine = "goja" /\ checks = NoChecks
    /\ err = Nil /\ cres = NoResult
    /\ metrics = 1 /\ onceDone = TRUE /\ onceM = 0
    /\ lastRequest = 0 /\ lastRequestLock = 0
    /\ responseCallback \in {"nil", "expected"}
    /\ nameTag = "" /\ enabledTags = DefaultSystemTags
    /\ reqObj = <<[NewRequest EXCEPT !.method = "GET", !.uri = "http://h.test/a"]>>
    /\ \E status \in {200, 404} :
         /\ respObj = <<[NewResponse EXCEPT !.status = status]>>
         /\ unf = <<[Request |-> 1, Response |-> 1, Err |-> Nil, Trail |-> NewTrail(""),
                     sentMethod |-> "GET", gotStatus |-> status, staged |-> Nil]>>
    /\ sink = <<>> /\ warned = {}
    /\ respFree = {}
    /\ reqw = <<>>
    /\ pc = [c \in Callers |-> "idle"]
    /\ loc = [c \in Callers |-> NoLoc]
    /\ hist = <<>> /\ ncalls = 0

\* tr.SaveSamples(builtinMetrics, tags)
TrailSaveSamples ==
    /\ mode = "trail"
    /\ ncalls < MaxSaves
    /\ \E tags \in TrailTagSets :
         /\ unf' = [unf EXCEPT ![1].Trail = SaveSamples(@, tags)]
         /\ hist' = Append(hist, [op |-> "SaveSamples", tags |-> tags,
                                  before |-> unf[1].Trail.Samples])
    /\ ncalls' = ncalls + 1
    /\ UNCHANGED <<mode, ctxDone, GOOS, jsEngine, checks, err, cres, metrics, onceDone, onceM,
                   lastRequest, lastRequestLock, responseCallback, nameTag, enabledTags,
                   sink, warned, reqObj, respObj, respFree, reqw, pc, loc>>

\* measureAndEmitMetrics, lines 146-163, in one step: SaveSamples, and if the
\* dispatcher has a response callback the Failed mark and the http_req_failed
\* sample, whose value is 1 when the callback rejects the status of the request
TrailFinish ==
    /\ mode = "trail"
    /\ ncalls < MaxSaves
    /\ \E tags \in TrailTagSets :
         /\ unf' = [unf EXCEPT ![1].Trail = FinishTrail(@, tags, unf[1])]
         /\ hist' = hist \o
               <<[op |-> "SaveSamples", tags |-> tags, before |-> unf[1].Trail.Samples]>>
               \o (IF responseCallback # "nil"
                   THEN <<[op |-> "append", tags |-> tags,
                           before |-> SaveSamples(unf[1].Trail, tags).Samples]>>
                   ELSE <<>>)
    /\ ncalls' = ncalls + 1
    /\ UNCHANGED <<mode, ctxDone, GOOS, jsEngine, checks, err, cres, metrics, onceDone, onceM,
                   lastRequest, lastRequestLock, responseCallback, nameTag, enabledTags,
                   sink, warned, reqObj, respObj, respFree, reqw, pc, loc>>

NextTrail == TrailSaveSamples \/ TrailFinish

SpecTrail == InitTrail /\ [][NextTrail]_vars

(***************************************************************************)
(* Properties                                                              *)
(***************************************************************************)
\* how many batches the sink holds for request id
RECURSIVE CountIn(_, _)
CountIn(q, id) ==
    IF q = <<>> THEN 0
    ELSE (IF q[1].id = id THEN 1 ELSE 0) + CountIn(Tail(q), id)
Emitted(id) == CountIn(sink, id)

\* requests a stage or drain has taken out of the slot
Removed == {hist[i].took : i \in 1..Len(hist)} \ {0}
\* caller c has taken request id out of the slot and has not emitted it yet
EmitPending(c, id) ==
    /\ loc[c].unprocessed = id
    /\ pc[c] \in {"pls_unlock", "pls_emit", "scr_unlock", "scr_emit"}
\* the call recorded as hist[i] has returned
OpDone(i) == loc[hist[i].c].n # hist[i].n \/ pc[hist[i].c] = loc[hist[i].c].ret
AllIdle == \A c \in Callers : pc[c] = "idle"
InEmit(c) == pc[c] \in {"pls_emit", "scr_emit"}

\* C1: under any interleaving of stage and drain calls no request is emitted more
\* than once; a request taken out of the slot (by a drain or by a displacing stage)
\* is held by exactly one caller until that caller emits it, and has exactly one
\* batch once the call that took it has returned; a request not taken out has none.
C1_ExactlyOnce ==
    mode = "disp" =>
      /\ \A id \in 1..Len(unf) : Emitted(id) <= 1
      /\ \A id \in Removed :
           /\ Cardinality({c \in Callers : EmitPending(c, id)}) + Emitted(id) = 1
           /\ Cardinality({i \in 1..Len(hist) : hist[i].took = id}) = 1
      /\ \A i \in 1..Len(hist) : hist[i].took # 0 /\ OpDone(i) => Emitted(hist[i].took) = 1
      /\ \A id \in (1..Len(unf)) \ Removed : Emitted(id) = 0

\* C1 witness: two callers, one displaced a request by staging, one drained, and
\* both requests have been emitted
C1_Witness ==
    /\ mode = "disp" /\ AllIdle
    /\ \E i, j \in 1..Len(sink) :
         /\ sink[i].op = "stage" /\ sink[j].op = "drain"
         /\ sink[i].by # sink[j].by /\ sink[i].id # sink[j].id

\* C4: a request taken out of the slot by a stage or drain call is emitted under
\* the lock acquisition of the swap: whenever a caller is measuring and emitting a
\* request it took, it still holds the mutex, so no other caller can stage a new
\* request or observe the slot before the emission completes.
C4_EmitUnderLock ==
    mode = "disp" => \A c \in Callers : InEmit(c) => lastRequestLock = c

\* the guard of caller c's next dispatcher step: taking the mutex needs it free,
\* releasing it needs c to hold it, emitting needs nothing
StepReady(c) ==
    \/ pc[c] \in {"pls_lock", "scr_lock"} /\ lastRequestLock = 0
    \/ pc[c] \in {"pls_unlock", "scr_unlock"} /\ lastRequestLock = c
    \/ pc[c] \in {"pls_emit", "scr_emit"}

\* every call in progress can take a step, or waits for the mutex while its holder
\* is at the step that releases it, which waits for nothing
NonBlocking ==
    \A c \in Callers :
      pc[c] \in {"pls_lock", "pls_unlock", "pls_emit", "scr_lock", "scr_unlock", "scr_emit"} =>
        \/ StepReady(c)
        \/ /\ pc[c] \in {"pls_lock", "scr_lock"}
           /\ lastRequestLock \in Callers \ {c}
           /\ pc[lastRequestLock] \in {"pls_unlock", "scr_unlock"}
           /\ StepReady(lastRequestLock)

\* the hist consists of stage calls of caller 1 alone, then at most one drain
OnlyCaller1 == \A i \in 1..Len(hist) : hist[i].c = 1

\* C5 as claimed: once two stage calls in a row have returned, with no drain, the
\* sink holds exactly two batches.
C5_TwoStagesTwoBatches ==
    (mode = "disp" /\ AllIdle /\ Len(hist) = 2
       /\ hist[1].op = "stage" /\ hist[2].op = "stage") => Len(sink) = 2

\* C5 as amended: the second of two stage calls in a row takes the first one's
\* request out of the slot and emits exactly one batch, that request's, before it
\* returns; the request it staged has no batch while it is in the slot and gets its
\* batch from the next drain, so that after a following drain by the same caller
\* the sink holds exactly the two batches in call order; no call blocks.
C5_TwoStagesOneBatchThenDrain ==
    mode = "disp" =>
      /\ \A i \in 1..(Len(hist) - 1) :
           hist[i].op = "stage" /\ hist[i + 1].op = "stage" =>
             /\ hist[i + 1].took = hist[i].put
             /\ OpDone(i + 1) =>
                  /\ Emitted(hist[i].put) = 1
                  /\ \E k \in 1..Len(sink) :
                       /\ sink[k].id = hist[i].put
                       /\ sink[k].by = hist[i + 1].c /\ sink[k].op = "stage"
      /\ lastRequest # 0 => Emitted(lastRequest) = 0
      /\ (AllIdle /\ Len(hist) = 2 /\ hist[1].op = "stage" /\ hist[2].op = "stage") =>
           /\ Len(sink) = 1 /\ sink[1].id = hist[1].put /\ lastRequest = hist[2].put
      /\ (AllIdle /\ OnlyCaller1 /\ Len(hist) = 3 /\ hist[1].op = "stage"
            /\ hist[2].op = "stage" /\ hist[3].op = "drain") =>
           /\ Len(sink) = 2
           /\ sink[1].id = hist[1].put /\ sink[2].id = hist[2].put
           /\ lastRequest = 0
      /\ NonBlocking

\* C5 witness: one caller staged twice and then drained; two batches are in the sink
C5_Witness ==
    /\ mode = "disp" /\ AllIdle /\ OnlyCaller1 /\ Len(hist) = 3
    /\ hist[1].op = "stage" /\ hist[2].op = "stage" /\ hist[3].op = "drain"
    /\ Len(sink) = 2

\* C6: a drain attaches lastErr only to a request that carries no error; a request
\* staged with an error is classified and emitted with that error whatever lastErr
\* the drain was handed.
C6_LastErrNeverOverwrites ==
    mode = "disp" =>
      \A k \in 1..Len(sink) :
        LET b == sink[k]
            orig == unf[b.id].staged
        IN b.op = "drain" =>
             /\ b.Err = (IF orig # Nil THEN orig ELSE b.lastErr)
             /\ unf[b.id].Err = b.Err
             /\ b.Err # Nil => <<b.ErrorCode, b.ErrorMsg>> = ErrorCodeForError(b.Err)
             /\ (orig = DialRefused) =>
                  <<b.ErrorCode, b.ErrorMsg>> =
                    <<tcpDialRefusedErrorCode, "dial: connection refused">>
             /\ (orig = Nil /\ b.lastErr = LateErr) =>
                  <<b.ErrorCode, b.ErrorMsg>> =
                    <<dnsNoSuchHostErrorCode, "lookup: no such host">>

\* C6 witness: a request staged with a dial error was drained with another lastErr
C6_Witness ==
    /\ mode = "disp"
    /\ \E k \in 1..Len(sink) :
         /\ sink[k].op = "drain" /\ sink[k].lastErr = LateErr
         /\ unf[sink[k].id].staged = DialRefused
         /\ sink[k].ErrorCode = tcpDialRefusedErrorCode

\* the error left when the transparent wrappers around e are removed
IsTransparent(e) == e.kind \in {"URLError", "WrapError", "SyscallError"}
RECURSIVE Cause(_)
Cause(e) == IF IsTransparent(e) THEN Cause(e.err) ELSE e

\* C10: an error wrapped in transparent wrappers (URL errors, errors that only
\* implement Unwrap) classifies exactly as its cause; a URL error around a DNS or
\* TLS error gets the DNS or TLS code, not the generic one.
C10_WrappersTransparent ==
    (mode = "classify" /\ cres # NoResult) =>
      /\ (IsTransparent(err) /\ IsTransparent(err.err)) =>
            cres = ErrorCodeForError(err.err.err)
      /\ IsTransparent(err) =>
           /\ cres = ErrorCodeForError(Cause(err))
           /\ Cause(err) = DNSError("no such host", "h.test") =>
                cres = <<dnsNoSuchHostErrorCode, "lookup: no such host">>
           /\ Cause(err).kind = "DNSError" => cres[1] \in {defaultDNSErrorCode, dnsNoSuchHostErrorCode}
           /\ Cause(err).kind = "RecordHeaderError" => cres[1] = tlsHeaderErrorCode
           /\ Cause(err).kind = "UnknownAuthorityError" => cres[1] = x509UnknownAuthorityErrorCode
           /\ Cause(err).kind = "HostnameError" => cres[1] = x509HostnameErrorCode

\* C10 witness: a URL error around a wrapper around "no such host" was classified
C10_Witness ==
    /\ mode = "classify" /\ cres = <<dnsNoSuchHostErrorCode, "lookup: no such host">>
    /\ err = URLError(WrapError(DNSError("no such host", "h.test")))

\* the kinds the type switch of ErrorCodeForError has a classifying case for
RecognizedKinds ==
    {"K6Error", "DNSError", "BlackListedIPError", "BlockedHostError", "GoAwayError",
     "StreamError", "ConnectionError", "OpError", "UnknownAuthorityError",
     "HostnameError", "RecordHeaderError"}

\* the errors of the chain that starts at e, outermost first
RECURSIVE Chain(_)
Chain(e) ==
    IF e.kind \in {"K6Error", "OpError", "URLError", "WrapError", "SyscallError"}
         /\ e.err # Nil
    THEN <<e>> \o Chain(e.err)
    ELSE <<e>>
Innermost(e) == Chain(e)[Len(Chain(e))]

\* every code the classifier can answer lies in the k6 code space
CodeSpace == 1000..1999

\* a url.Error, net.OpError or os.SyscallError that holds no cause (Err is nil)
NoCause(e) == e.kind \in {"URLError", "OpError", "SyscallError"} /\ e.err = Nil
\* the chain that starts at e ends in such an error
EndsWithoutCause(e) == NoCause(Innermost(e))
\* none of the errors of the chain is of a recognized kind
Unrecognized(e) == \A i \in 1..Len(Chain(e)) : Chain(e)[i].kind \notin RecognizedKinds

Http2Base(kind) ==
    CASE kind = "GoAwayError" -> unknownHTTP2GoAwayErrorCode
      [] kind = "StreamError" -> unknownHTTP2StreamErrorCode
      [] kind = "ConnectionError" -> unknownHTTP2ConnectionErrorCode

\* C12: an HTTP/2 GoAway, stream or connection error with a subcode beyond
\* HTTP_1_1_REQUIRED (13) gets its partition's unknown code 1610, 1630 or 1650; with
\* a known subcode c it gets that code plus 1 + c (1611..1624, 1631..1644,
\* 1651..1664).
C12_Http2Partitions ==
    (mode = "classify" /\ cres # NoResult
       /\ err.kind \in {"GoAwayError", "StreamError", "ConnectionError"}) =>
      /\ err.code > 13 => cres[1] = Http2Base(err.kind) /\ cres[1] \in {1610, 1630, 1650}
      /\ err.code <= 13 => cres[1] = Http2Base(err.kind) + 1 + err.code
      /\ (err = GoAwayError(13)) => cres[1] = 1624
      /\ (err = StreamError(0)) => cres[1] = 1631
      /\ (err = ConnectionError(7)) => cres[1] = 1658
      /\ (err = ConnectionError(255)) =>
           cres = <<1650, "http2: connection error with http2 ErrCode unknown error code 0xff">>

\* C12 witness: a stream error with the first subcode beyond the enumerated set
C12_Witness ==
    /\ mode = "classify" /\ err = StreamError(ErrCodeHTTP11Required + 1)
    /\ cres[1] = unknownHTTP2StreamErrorCode

\* C13: a K6Error handed to ErrorCodeForError is answered with its own Code and
\* Message, whatever error it wraps: a request-timeout K6Error around a DNS, TCP,
\* TLS or HTTP/2 error still gives 1050 "request timeout".
C13_K6ErrorVerbatim ==
    (mode = "classify" /\ cres # NoResult /\ err.kind = "K6Error") =>
      /\ cres = <<err.code, err.msg>>
      /\ cres = <<1050, "request timeout">>

\* C13 witness: a K6Error around a recognized DNS error was classified
C13_Witness ==
    /\ mode = "classify" /\ cres = <<1050, "request timeout">>
    /\ err = K6Error(1050, "request timeout", DNSError("no such host", "h.test"))

(***************************************************************************)
(* Properties of the round trips made through the client                   *)
(***************************************************************************)
\* request id has been placed in the staged slot
Staged(id) == \E i \in 1..Len(hist) : hist[i].op = "stage" /\ hist[i].put = id
ClientIdle == \A c \in ClientCallers : pc[c] = "idle"

\* C2: of two sequential round trips A then B of one client, A's batch is in the
\* sink before B is placed in the staged slot: when do is about to send or to stage
\* B every earlier round trip has its batch, pushed by do's own drain and never by a
\* displacing stage; the sink holds the batches in round-trip order.
C2_EmittedBeforeNextStaged ==
    mode = "client" =>
      /\ \A c \in ClientCallers :
           /\ pc[c] # "scr_emit"
           /\ pc[c] = "do_send" => \A id \in 1..Len(unf) : Emitted(id) = 1
           /\ pc[c] = "scr_lock" => \A id \in 1..(loc[c].cur - 1) : Emitted(id) = 1
      /\ lastRequest # 0 => \A id \in 1..(lastRequest - 1) : Emitted(id) = 1
      /\ \A k \in 1..Len(sink) : sink[k].id = k /\ sink[k].op = "drain"
      /\ \A i \in 1..Len(hist) : hist[i].op = "stage" => hist[i].took = 0
      /\ warned = {}

\* C2 witness: the second round trip is staged and the call has returned; the first
\* has its batch, pushed by the second call's drain
C2_Witness ==
    /\ mode = "client" /\ ClientIdle
    /\ lastRequest = 2 /\ Len(sink) = 1
    /\ sink[1].id = 1 /\ sink[1].op = "drain"

\* C3 as claimed: once the client's last call has returned, no round trip is left in
\* the staged slot without its batch.
C3_LastRoundTripFlushed ==
    (mode = "client" /\ ClientIdle /\ ncalls = MaxCalls) =>
      /\ lastRequest = 0
      /\ \A id \in 1..Len(unf) : Emitted(id) = 1

\* C7 as claimed: a round trip of the client that completed with a status S >= 400
\* is emitted with code 1000 + S and status tag S.
C7_StatusCodeOfCompletedRoundTrip ==
    mode = "client" =>
      \A k \in 1..Len(sink) :
        LET b == sink[k]
            u == unf[b.id]
        IN (u.staged = Nil /\ u.gotStatus >= 400) =>
             /\ b.ErrorCode = 1000 + u.gotStatus
             /\ b.tags["status"] = ToString(u.gotStatus)
             /\ (u.gotStatus = 404 => b.ErrorCode = 1404 /\ b.tags["status"] = "404")

\* C8: a request staged with the error of a failed round trip is emitted with status
\* tag "0" and with the error and error_code tags (and the FinishedRequest fields)
\* that ErrorCodeForError gives for that error, a refused dial giving 1212; the
\* response's status is not consulted: the tag is "0" whatever the response holds,
\* and a response callback is asked about status 0, so the request counts as failed.
C8_FailedRoundTripTags ==
    mode \in {"disp", "client"} =>
      \A k \in 1..Len(sink) :
        LET b == sink[k]
            u == unf[b.id]
        IN u.staged # Nil =>
             /\ b.tags["status"] = "0"
             /\ <<b.ErrorCode, b.ErrorMsg>> = ErrorCodeForError(u.staged)
             /\ b.tags["error"] = b.ErrorMsg
             /\ b.tags["error_code"] = ToString(b.ErrorCode)
             /\ u.staged = DialRefused =>
                  /\ b.tags["error_code"] = "1212"
                  /\ b.tags["error"] = "dial: connection refused"
             /\ responseCallback # "nil" =>
                  /\ b.Failed = "true"
                  /\ b.tags["expected_response"] = "false"
                  /\ b.Samples[Len(b.Samples)].metric = "http_req_failed"
                  /\ b.Samples[Len(b.Samples)].value = 1
             /\ responseCallback = "nil" =>
                  /\ b.Failed = "unset"
                  /\ "expected_response" \notin DOMAIN b.tags

\* C8 witness: under a response callback, a request staged with a refused dial and
\* a response whose status would read as 200 has been emitted
C8_Witness ==
    /\ mode = "disp" /\ responseCallback # "nil"
    /\ \E k \in 1..Len(sink) :
         /\ unf[sink[k].id].staged = DialRefused
         /\ StatusCode(unf[sink[k].id].Response) = StatusOK
         /\ sink[k].tags["status"] = "0"

\* C9 as claimed: from the moment a round trip's request is staged until it is
\* emitted, the pooled request it refers to keeps the method that was sent and the
\* response it refers to stays acquired and keeps the status that was received; the
\* batch carries that method and status.
C9_StagedRequestImmutable ==
    mode = "client" =>
      /\ \A id \in 1..Len(unf) :
           (Staged(id) /\ Emitted(id) = 0) =>
             /\ Method(unf[id].Request) = unf[id].sentMethod
             /\ unf[id].Response \notin respFree
             /\ respObj[unf[id].Response].status = unf[id].gotStatus
      /\ \A k \in 1..Len(sink) :
           /\ sink[k].tags["method"] = unf[sink[k].id].sentMethod
           /\ unf[sink[k].id].staged = Nil =>
                sink[k].tags["status"] = ToString(unf[sink[k].id].gotStatus)

(***************************************************************************)
(* Properties of the requests makeReq prepares                             *)
(***************************************************************************)
\* C14: a pooled request reused for a GET is sent with method GET, an empty body
\* and no body stream, whatever the calls before it were (a POST with a body
\* included); and for every request that lies in the pool in some reachable state,
\* setting it up for GET or HEAD gives that method with body and stream cleared.
C14_ReuseForGetClearsBody ==
    mode = "client" =>
      /\ \A id \in 1..Len(unf) :
           (unf[id].reused /\ unf[id].callMethod \in {"GET", "HEAD"}) =>
             /\ unf[id].sentMethod = unf[id].callMethod
             /\ unf[id].sentBody = "" /\ ~unf[id].sentStream
             /\ unf[id].sentPayload = "none"
      /\ \A h \in reqw[1].reqPool, m \in {"GET", "HEAD"} :
           LET s == setupCachedReq(reqObj[h], reqw[1], m, TRUE)
           IN s.err = Nil /\ s.req.method = m /\ s.req.body = "" /\ ~s.req.bodyStream

\* C14 witness: a request sent as POST with a body was reused for a GET
C14_Witness ==
    /\ mode = "client"
    /\ \E i, j \in 1..Len(unf) :
         /\ i < j /\ unf[i].Request = unf[j].Request
         /\ unf[i].sentMethod = "POST" /\ unf[i].sentBody = "payload"
         /\ unf[j].reused /\ unf[j].callMethod = "GET" /\ unf[j].sentBody = ""

\* C15 as claimed: a reused pooled request is sent with the method of the current
\* call and with the body the current call requires: the definition's body for a
\* method that carries one, none for GET and HEAD.
C15_ReusedRequestMatchesCall ==
    mode = "client" =>
      \A id \in 1..Len(unf) :
        unf[id].reused =>
          /\ unf[id].sentMethod = unf[id].callMethod
          /\ (setBody(unf[id].callMethod, reqw[1].Body) /\ reqw[1].Body = "string") =>
               unf[id].sentBody = "payload"
          /\ (setBody(unf[id].callMethod, reqw[1].Body) /\ reqw[1].Body = "FileStream") =>
               unf[id].sentStream
          /\ ~setBody(unf[id].callMethod, reqw[1].Body) =>
               unf[id].sentBody = "" /\ ~unf[id].sentStream

\* C16: every request sent with a FileStream body, prepared fresh or reused, is
\* sent from a rewound file, so each round trip that gets a response has
\* transmitted the full payload; the transport's Close leaves the file open; a call
\* whose rewind failed returned that error without a round trip.
C16_StreamRewoundBeforeEachSend ==
    mode = "client" =>
      /\ \A id \in 1..Len(unf) :
           unf[id].sentStream =>
             /\ unf[id].sentPayload = "full"
             /\ reqw[1].Body = "FileStream" /\ setBody(unf[id].callMethod, reqw[1].Body)
      /\ reqw[1].streamOpen
      /\ \A c \in ClientCallers :
           /\ (pc[c] = "do_send" /\ reqObj[reqw[1].req].bodyStream) =>
                reqw[1].streamPos = "start"
           /\ (pc[c] = "idle" /\ loc[c].result.err = SeekErr) =>
                /\ loc[c].cur = 0 /\ loc[c].resp = 0
                /\ loc[c].result.resp = "nil"

\* C16 witness: the same stream was sent in two consecutive round trips, the second
\* on a reused request
C16_Witness ==
    /\ mode = "client"
    /\ \E i \in 1..(Len(unf) - 1) :
         /\ unf[i].sentStream /\ unf[i].staged = Nil /\ unf[i].sentPayload = "full"
         /\ unf[i + 1].sentStream /\ unf[i + 1].reused /\ unf[i + 1].staged = Nil
         /\ unf[i + 1].sentPayload = "full"

\* C17 as claimed: when a makeReq call has returned, with or without an error, the
\* request instance it acquired has been put back into the definition's pool and
\* the definition's reference to it is cleared.
C17_InstanceReleasedOnReturn ==
    mode = "client" =>
      \A c \in ClientCallers :
        (pc[c] = "idle" /\ loc[c].op = "makeReq") =>
          /\ reqw[1].req = 0
          /\ \A h \in 1..Len(reqObj) : h \in reqw[1].reqPool

(***************************************************************************)
(* Properties of what makeReq returns                                      *)
(***************************************************************************)
\* C18 as claimed: a call whose round trip failed returns the raw error when the
\* definition has Throw set, and otherwise a nil error with a result object that
\* carries the code and message ErrorCodeForError gives for the error.
C18_FailedRoundTripResult ==
    mode = "client" =>
      \A c \in ClientCallers :
        (pc[c] = "idle" /\ loc[c].doErr # Nil) =>
          IF reqw[1].Throw
          THEN loc[c].result = [resp |-> "nil", err |-> loc[c].doErr]
          ELSE /\ loc[c].result.err = Nil
               /\ loc[c].result.resp # "nil"
               /\ <<loc[c].result.resp.ErrorCode, loc[c].result.resp.Error>> =
                    ErrorCodeForError(loc[c].doErr)

(***************************************************************************)
(* Properties of the emitted tags                                          *)
(***************************************************************************)
\* C19: (under the default system tags) when the dispatcher's tag context has a name
\* tag, the tag set and every sample of an emitted batch carry a url tag equal to
\* that name, which differs from the request URI here, and the name tag is the one
\* that was set; when it has none, name and url are both the request's URI.
C19_NameEchoedAsURL ==
    mode = "disp" =>
      \A k \in 1..Len(sink) :
        LET b == sink[k]
            uri == URI(unf[b.id].Request)
        IN /\ uri \in {"http://h.test/a", "http://h.test/b"}
           /\ \A i \in 1..Len(b.Samples) : b.Samples[i].tags = b.tags
           /\ Len(b.Samples) >= 2
           /\ IF nameTag # ""
              THEN b.tags["url"] = nameTag /\ b.tags["name"] = nameTag /\ nameTag # uri
              ELSE b.tags["url"] = uri /\ b.tags["name"] = uri

\* C19 witness: under the name tag "custom" a batch with url "custom" was emitted
\* for the request to http://h.test/b
C19_Witness ==
    /\ mode = "disp" /\ nameTag = "custom"
    /\ \E k \in 1..Len(sink) :
         /\ URI(unf[sink[k].id].Request) = "http://h.test/b"
         /\ sink[k].tags["url"] = "custom" /\ sink[k].tags["name"] = "custom"

\* the samples CheckStatus call number n handed to PushIfNotDone
CheckSamples(n) == {i \in 1..Len(sink) : sink[i].metric = "checks" /\ sink[i].n = n}

\* C20: CheckStatus(want, response) returns true exactly when the response status
\* equals want, pushes exactly one check sample named "check status is <want>"
\* whose value is 1 on pass and 0 on fail, and leaves the dispatcher's staged slot
\* alone; in the init context, or given nothing or an object that is no Response,
\* it returns an error and pushes no sample.
C20_CheckStatusContract ==
    mode = "check" =>
        \A k \in 1..Len(hist) :
            LET h == hist[k]
            IN /\ h.slot = lastRequest
               /\ (h.pos = "init" \/ h.obj.kind # "Response")
                      => h.done /\ h.err # Nil /\ ~h.pass /\ CheckSamples(h.n) = {}
               /\ h.err # Nil => CheckSamples(h.n) = {}
               /\ (h.done /\ h.err = Nil)
                      => /\ h.pass <=> h.obj.Status = h.want
                         /\ Cardinality(CheckSamples(h.n)) = 1
                         /\ \A i \in CheckSamples(h.n) :
                                /\ ~ctxDone => sink[i].pushed
                                /\ sink[i].value = (IF h.pass THEN 1 ELSE 0)
                                /\ "check" \in enabledTags
                                       => HasTag(sink[i].tags, "check")
                                          /\ sink[i].tags["check"]
                                                 = "check status is " \o ToString(h.want)

\* C21: in every FinishedRequest the status-derived code (1000 + status) is
\* assigned only when the request carries no error: with an error, code and message
\* are the classifier's result for it; without one the code is 1000 + status for a
\* status of 400 or more and 0 below 400.
C21_StatusCodeOnlyWithoutError ==
    mode = "disp" =>
      \A k \in 1..Len(sink) :
        LET b == sink[k]
            status == StatusCode(unf[b.id].Response)
        IN /\ b.Err # Nil => <<b.ErrorCode, b.ErrorMsg>> = ErrorCodeForError(b.Err)
           /\ (b.Err = Nil /\ status >= 400) => b.ErrorCode = 1000 + status
           /\ (b.Err = Nil /\ status < 400) => b.ErrorCode = 0
           /\ b.ErrorCode = 1000 + status => b.Err = Nil

\* C21 witness: a request whose response holds status 404 was emitted with an error
\* (attached by the drain) and carries the classifier's code, and another was
\* emitted without error and carries 1404
C21_Witness ==
    /\ mode = "disp"
    /\ \E k \in 1..Len(sink) :
         /\ sink[k].Err # Nil
         /\ StatusCode(unf[sink[k].id].Response) = 404
         /\ sink[k].ErrorCode = dnsNoSuchHostErrorCode
    /\ \E k \in 1..Len(sink) : sink[k].Err = Nil /\ sink[k].ErrorCode = 1404

\* the number of samples of the given metric in a sample list
CountMetric(samples, m) == Cardinality({i \in 1..Len(samples) : samples[i].metric = m})
\* the number of SaveSamples calls made on the Trail so far
SaveCalls == Cardinality({i \in 1..Len(hist) : hist[i].op = "SaveSamples"})
\* the Trail has just been through SaveSamples
JustSaved == hist # <<>> /\ hist[Len(hist)].op = "SaveSamples"

\* C22 as claimed: right after a second SaveSamples call on the same Trail, the
\* sample list holds two request-count and two request-duration samples.
C22_SecondCallDuplicates ==
    (mode = "trail" /\ JustSaved /\ SaveCalls = 2) =>
        /\ CountMetric(unf[1].Trail.Samples, "http_reqs") = 2
        /\ CountMetric(unf[1].Trail.Samples, "http_req_duration") = 2

\* C22 amended: every SaveSamples call, the first or a later one, leaves the Trail
\* with exactly the two base samples of that call, one request-count and one
\* request-duration sample carrying the tags of the call; whatever the list held
\* before (base samples of an earlier call, a request-failed sample) is gone.
C22_EachCallReplacesSamples ==
    (mode = "trail" /\ JustSaved) =>
        /\ unf[1].Trail.Samples = <<Sample("http_reqs", 1, hist[Len(hist)].tags),
                                    Sample("http_req_duration", 1, hist[Len(hist)].tags)>>
        /\ CountMetric(unf[1].Trail.Samples, "http_reqs") = 1
        /\ CountMetric(unf[1].Trail.Samples, "http_req_duration") = 1

\* C22 witness: a second SaveSamples call was made on a Trail that held three
\* samples, with tags other than those of the first call
C22_Witness ==
    /\ mode = "trail" /\ JustSaved /\ SaveCalls = 2
    /\ Len(hist[Len(hist)].before) = 3
    /\ hist[Len(hist)].before[1].tags # hist[Len(hist)].tags
    /\ Len(unf[1].Trail.Samples) = 2

\* the callers inside a critical section: past Lock, before Unlock
InSection == {c \in Callers : pc[c] \in {"pls_unlock", "scr_unlock"}}

\* C23: the staged slot is read and written only in a step that holds
\* lastRequestLock; the critical sections of stage and drain exclude one another
\* across callers; the mutex is released on every path of both operations and is
\* not held while a request is measured and pushed; no interleaving of callers gets
\* stuck.
C23_SlotUnderLockNoDeadlock ==
    /\ [](mode = "disp" =>
            /\ lastRequestLock \in {0} \cup Callers
            /\ Cardinality(InSection) <= 1
            /\ \A c \in Callers : lastRequestLock = c <=> c \in InSection
            /\ \A c \in Callers :
                 (InEmit(c) \/ pc[c] = "idle") => lastRequestLock # c
            /\ NonBlocking)
    /\ [][ mode = "disp" =>
             /\ lastRequest' # lastRequest => Len(hist') > Len(hist)
             /\ Len(hist') > Len(hist) =>
                  /\ lastRequestLock = 0
                  /\ lastRequestLock' = hist'[Len(hist')].c
                  /\ hist'[Len(hist')].took = lastRequest
                  /\ hist'[Len(hist')].put = lastRequest' ]_vars

\* C23 witness: one caller is inside the critical section of a stage that found a
\* request in the slot, a second caller waits for the mutex to drain, and an earlier
\* stage has already returned with the mutex released
C23_Witness ==
    /\ mode = "disp"
    /\ \E c, d \in Callers :
         /\ c # d
         /\ pc[c] = "scr_unlock" /\ lastRequestLock = c /\ loc[c].unprocessed # 0
         /\ pc[d] = "pls_lock"
    /\ Len(hist) >= 2

\* hist[j] is the stage of a round trip between whose drain and stage another
\* caller staged a request: two calls of do overlapped on the client
Interleaved(j) ==
    \E i \in 1..(j - 1) :
      /\ hist[i].op = "drain" /\ hist[i].n = hist[j].n /\ hist[i].c = hist[j].c
      /\ \E k \in (i + 1)..(j - 1) :
           /\ hist[k].op = "stage" /\ hist[k].c # hist[j].c
           /\ hist[k].put = hist[j].took
\* the requests displaced by a stage of an overlapped round trip
DisplacedWhenInterleaved ==
    {hist[j].took : j \in {x \in 1..Len(hist) : hist[x].op = "stage" /\ hist[x].took # 0
                                                  /\ Interleaved(x)}}
\* the calls of do followed one another: every stage comes right after the drain of
\* the same call
DoSequential ==
    \A j \in 1..Len(hist) :
      hist[j].op = "stage" =>
        j > 1 /\ hist[j - 1].op = "drain" /\ hist[j - 1].n = hist[j].n

\* C24: when the round trips of a client go through Client.do one at a time,
\* SaveCurrentRequest always finds the slot empty: no warning is logged and no batch
\* is pushed from inside a stage.  A stage finds a request in the slot only when
\* another caller's do overlapped with it, and only such requests are warned about
\* and emitted by a stage.
C24_StageFindsSlotEmptyUnlessInterleaved ==
    mode = "do" =>
      /\ \A j \in 1..Len(hist) :
           (hist[j].op = "stage" /\ hist[j].took # 0) => Interleaved(j)
      /\ warned \subseteq DisplacedWhenInterleaved
      /\ \A k \in 1..Len(sink) :
           sink[k].op = "stage" => sink[k].id \in DisplacedWhenInterleaved
      /\ \A c \in Callers : pc[c] = "scr_emit" => loc[c].unprocessed \in DisplacedWhenInterleaved
      /\ DoSequential =>
           /\ warned = {}
           /\ \A c \in Callers : pc[c] # "scr_emit"
           /\ \A k \in 1..Len(sink) : sink[k].op = "drain"

\* C24 witness: two round trips overlapped: both drained the empty slot, the first
\* stage found it empty, and the later stage displaced the other's request, warned
\* and emitted it; both calls have returned and released their responses
C24_Witness ==
    /\ mode = "do" /\ AllIdle
    /\ Len(hist) = 4
    /\ hist[1].op = "drain" /\ hist[2].op = "drain" /\ hist[1].c # hist[2].c
    /\ hist[3].op = "stage" /\ hist[3].took = 0
    /\ hist[4].op = "stage" /\ hist[4].took = hist[3].put /\ hist[4].took \in warned
    /\ \E k \in 1..Len(sink) : sink[k].op = "stage" /\ sink[k].id = hist[4].took
    /\ \A c \in Callers : loc[c].resp \in respFree

\* C25: ProcessLastSavedRequest always leaves the staged slot empty.  When the slot
\* was empty the call returns without pushing anything and without using lastErr
\* (no request changes); when it held a request the call measures and pushes
\* exactly that request, and nothing else, before it returns.
C25_DrainTakesExactlyTheStaged ==
    [][ mode = "disp" =>
          \A c \in Callers :
            /\ (pc[c] = "pls_lock" /\ pc'[c] # pc[c]) =>
                 /\ lastRequest' = 0
                 /\ loc'[c].unprocessed = lastRequest
                 /\ sink' = sink /\ unf' = unf
            /\ (pc[c] = "pls_unlock" /\ pc'[c] # pc[c]) =>
                 /\ sink' = sink /\ unf' = unf /\ lastRequest' = lastRequest
                 /\ loc[c].unprocessed = 0 => pc'[c] = "idle"
                 /\ loc[c].unprocessed # 0 => pc'[c] = "pls_emit"
            /\ (pc[c] = "pls_emit" /\ pc'[c] # pc[c]) =>
                 /\ pc'[c] = "idle"
                 /\ lastRequest' = lastRequest
                 /\ sink' = Append(sink, sink'[Len(sink')])
                 /\ sink'[Len(sink')].id = loc[c].unprocessed
                 /\ sink'[Len(sink')].by = c /\ sink'[Len(sink')].op = "drain"
                 /\ \E i \in 1..Len(hist) :
                      /\ hist[i].op = "drain" /\ hist[i].c = c /\ hist[i].n = loc[c].n
                      /\ hist[i].took = loc[c].unprocessed
                 /\ \A id \in 1..Len(unf) : id # loc[c].unprocessed => unf'[id] = unf[id] ]_vars

\* C25 witness: a drain took the staged request and pushed its batch; a later
\* drain that was handed an error found the slot empty and has returned: nothing
\* more was pushed and the request emitted before carries no error
C25_Witness ==
    /\ mode = "disp"
    /\ \E c \in Callers :
         /\ pc[c] = "idle" /\ loc[c].op = "drain" /\ loc[c].lastErr # Nil
         /\ loc[c].unprocessed = 0
         /\ hist[Len(hist)].c = c /\ hist[Len(hist)].n = loc[c].n
    /\ Len(hist) = 3 /\ hist[2].op = "drain" /\ hist[2].took = 1
    /\ hist[3].op = "drain" /\ hist[3].took = 0
    /\ Len(sink) = 1 /\ sink[1].id = 1 /\ sink[1].Err = Nil /\ unf[1].Err = Nil
    /\ lastRequest = 0

\* the entries of hist with the given op
HistOps(op) == {i \in 1..Len(hist) : hist[i].op = op}

\* C26: the client's MetricDispatcher is created exactly once, by a makeReq call
\* that passed request setup and before any call enters do, however the callers
\* interleave; every call that enters do finds that one dispatcher, never none.
C26_DispatcherCreatedOnce ==
    mode = "once" =>
      /\ metrics \in {0, 1}
      /\ Cardinality(HistOps("create")) = metrics
      /\ onceDone => metrics = 1
      /\ \A c \in Callers : pc[c] \in {"once_unlock", "do_enter"} => metrics = 1 /\ onceDone
      /\ \A i \in HistOps("do") :
           /\ hist[i].disp = 1
           /\ \E k \in HistOps("create") : k < i
      /\ \A i \in HistOps("create"), k \in HistOps("setupErr") : hist[i].n # hist[k].n
      /\ (HistOps("setupErr") = 1..Len(hist) /\ AllIdle) => metrics = 0 /\ ~onceDone

\* C26 witness: the first call failed in request setup and created nothing; the
\* next two calls raced through the Once, the later one created the dispatcher, and
\* both entered do with it
C26_Witness ==
    /\ mode = "once" /\ AllIdle
    /\ Len(hist) >= 1
    /\ hist[1].op = "setupErr" /\ hist[1].n = 1 /\ hist[1].disp = 0
    /\ \E i \in HistOps("create") : hist[i].n = 3
    /\ \E i, k \in HistOps("do") : hist[i].c # hist[k].c
    /\ metrics = 1

\* the samples of the given metric in a batch
SamplesOf(b, m) == {i \in 1..Len(b.Samples) : b.Samples[i].metric = m}

\* the batch handed to PushIfNotDone for an emission holds what C27 says: exactly
\* one request-count sample, of value 1, exactly one request-duration sample, and a
\* request-failed sample if and only if a response callback is configured, of value
\* 1 exactly when the callback rejected the status it was given (0 for a request
\* with an error); without a callback the Trail's failed flag is unset
BatchAsClaimed(b) ==
    LET given == IF b.Err = Nil THEN StatusCode(unf[b.id].Response) ELSE 0
    IN /\ Cardinality(SamplesOf(b, "http_reqs")) = 1
       /\ \A i \in SamplesOf(b, "http_reqs") : b.Samples[i].value = 1
       /\ Cardinality(SamplesOf(b, "http_req_duration")) = 1
       /\ Cardinality(SamplesOf(b, "http_req_failed"))
              = (IF responseCallback # "nil" THEN 1 ELSE 0)
       /\ Len(b.Samples) = (IF responseCallback # "nil" THEN 3 ELSE 2)
       /\ \A i \in SamplesOf(b, "http_req_failed") :
            /\ b.Samples[i].value \in {0, 1}
            /\ b.Samples[i].value = 1 <=> ~CallResponseCallback(given)
            /\ b.Failed = (IF b.Samples[i].value = 1 THEN "true" ELSE "false")
       /\ responseCallback = "nil" => b.Failed = "unset"
       /\ \A i \in 1..Len(b.Samples) : b.Samples[i].tags = b.tags

\* C27 as claimed: every emission pushes exactly one batch to the sink, and the
\* batch holds exactly one request-count sample of value 1, exactly one
\* request-duration sample, and a request-failed sample if and only if a response
\* callback is configured, of value 1 exactly when the callback rejected the status.
C27_EveryEmissionPushes ==
    mode = "disp" => \A k \in 1..Len(sink) : sink[k].pushed /\ BatchAsClaimed(sink[k])

\* C27 amended: every emission builds exactly one batch, holding exactly one
\* request-count sample of value 1, exactly one request-duration sample, and exactly
\* one request-failed sample if and only if a response callback is configured, of
\* value 1 exactly when the callback rejected the status it was given (0 for a
\* request with an error); without a callback the Trail's failed flag stays unset.
\* The batch is pushed to the sink exactly when the context is not done at that
\* moment: once the context is done an emission pushes nothing, the samples staying
\* on the request's Trail only.
C27_BatchContents ==
    /\ [](mode = "disp" =>
            /\ \A k \in 1..Len(sink) :
                 /\ BatchAsClaimed(sink[k])
                 /\ unf[sink[k].id].Trail.Samples = sink[k].Samples
                 /\ ~sink[k].pushed => ctxDone
            /\ \A j, k \in 1..Len(sink) : (j < k /\ sink[k].pushed) => sink[j].pushed)
    /\ [][ mode = "disp" =>
             /\ Len(sink') \in {Len(sink), Len(sink) + 1}
             /\ \A c \in Callers :
                  (InEmit(c) /\ pc'[c] # pc[c]) =>
                     /\ Len(sink') = Len(sink) + 1
                     /\ sink'[Len(sink')].pushed = ~ctxDone
                     /\ sink'[Len(sink')].by = c ]_vars

\* C27 witness: under a response callback, the batch of a request with an error
\* (whose response would read 200) holds a request-failed sample of value 1 and was
\* pushed; the context was then cancelled, and the batch of a completed 200
\* response, with a request-failed sample of value 0, was built but not pushed
C27_Witness ==
    /\ mode = "disp" /\ responseCallback # "nil" /\ ctxDone
    /\ \E k \in 1..Len(sink) :
         /\ sink[k].Err # Nil /\ StatusCode(unf[sink[k].id].Response) = StatusOK
         /\ sink[k].Samples[3].metric = "http_req_failed" /\ sink[k].Samples[3].value = 1
         /\ sink[k].pushed
    /\ \E k \in 1..Len(sink) :
         /\ sink[k].Err = Nil /\ StatusCode(unf[sink[k].id].Response) = StatusOK
         /\ sink[k].Samples[3].metric = "http_req_failed" /\ sink[k].Samples[3].value = 0
         /\ ~sink[k].pushed

\* the statuses that carry no body: informational, 204 No Content, 304 Not Modified
NoBodyStatuses == (100..199) \cup {204, 304}
\* the positions of a call in hist
CallsOf(name) == {i \in 1..Len(hist) : hist[i] = name}

Http2Kinds == {"GoAwayError", "StreamError", "ConnectionError"}
\* the codes C29 claims for a kind: the unknown code and the 13 that follow
Http2RangeClaimed(kind) == Http2Base(kind)..(Http2Base(kind) + 13)
\* the codes a kind can get: the unknown code and one code for each of the subcodes
\* 0..13
Http2Range(kind) == Http2Base(kind)..(Http2Base(kind) + 1 + ErrCodeHTTP11Required)

\* C29 as claimed: the code of an HTTP/2 GoAway error lies in 1610..1623, of a
\* stream error in 1630..1643, of a connection error in 1650..1663, for every
\* subcode, and the three ranges do not overlap.
C29_Http2RangesAsClaimed ==
    (mode = "classify" /\ cres # NoResult /\ Cause(err).kind \in Http2Kinds) =>
      /\ cres[1] \in Http2RangeClaimed(Cause(err).kind)
      /\ \A k1, k2 \in Http2Kinds :
           k1 # k2 => Http2RangeClaimed(k1) \cap Http2RangeClaimed(k2) = {}

\* C29 amended: the code of an HTTP/2 GoAway error lies in 1610..1624, of a stream
\* error in 1630..1644, of a connection error in 1650..1664, for every subcode and
\* also when the error is wrapped; subcode 13 gets the last code of its range; the
\* three ranges do not overlap, so the code tells the kind.
C29_Http2Ranges ==
    (mode = "classify" /\ cres # NoResult /\ Cause(err).kind \in Http2Kinds) =>
      /\ cres[1] \in Http2Range(Cause(err).kind)
      /\ \A k \in Http2Kinds \ {Cause(err).kind} : cres[1] \notin Http2Range(k)
      /\ Http2Range("GoAwayError") = 1610..1624
      /\ Http2Range("StreamError") = 1630..1644
      /\ Http2Range("ConnectionError") = 1650..1664
      /\ \A k1, k2 \in Http2Kinds : k1 # k2 => Http2Range(k1) \cap Http2Range(k2) = {}
      /\ Cause(err).code = ErrCodeHTTP11Required =>
           cres[1] = Http2Base(Cause(err).kind) + 14

\* C29 witness: a URL error around a GoAway with subcode 13 (HTTP_1_1_REQUIRED) was
\* classified as 1624
C29_Witness ==
    /\ mode = "classify" /\ err = URLError(GoAwayError(ErrCodeHTTP11Required))
    /\ cres[1] = 1624

\* the OS error number an operation error carries, directly or inside an OS syscall
\* error; 0 if it carries none
ErrnoOf(o) ==
    IF o.err.kind = "Errno" THEN o.err.n
    ELSE IF o.err.kind = "SyscallError" /\ o.err.err.kind = "Errno" THEN o.err.err.n
    ELSE 0
\* the number means connection reset on this build
IsReset(n) == n = ECONNRESET \/ (GOOS = "windows" /\ n = WSAECONNRESET)

\* rendering the error panics: its chain of net.OpError and os.SyscallError, which
\* call Err.Error() themselves, ends without a cause
RECURSIVE RenderPanics(_)
RenderPanics(e) ==
    e.kind \in {"OpError", "SyscallError"} /\ (e.err = Nil \/ RenderPanics(e.err))

IsTCPDial(o) == o.kind = "OpError" /\ o.op = "dial" /\ o.net \in {"tcp", "tcp6"}
\* the operation error's cause is an OS syscall error around an error number
HasSyscallErrno(o) == o.err.kind = "SyscallError" /\ o.err.err.kind = "Errno"
\* the number means connection refused on this build
IsRefused(n) == n = ECONNREFUSED \/ (GOOS = "windows" /\ n = WSAECONNREFUSED)
\* what the claim says of a dial error whose cause is not a syscall errno: the
\* cause's own code and message unless that code is the generic one, else 1210
\* with the operation error's raw message
DialByCause(o, forCause) ==
    IF forCause[1] # defaultErrorCode THEN forCause
    ELSE <<tcpDialErrorCode, ErrorText(o)>>

====
